---------------------------- MODULE Spec2Model ----------------------------
(***************************************************************************)
(* A model of the Java++ compiler (CrimsonDemon567PC/JavaPP):              *)
(*   pre.py   lexer and recursive-descent parser                           *)
(*   jppc.py  type checker (TypeChecker) and Java generator (JavaGen)      *)
(*   main.py  the compile pipeline (compile_jpp)                           *)
(*                                                                         *)
(* Python strings are TLA+ strings (TLC evaluates Len, SubSeq, Head, Tail  *)
(* and \o on them).  AST nodes (ast.py) are records whose field "kind" is  *)
(* the class name and whose other fields are the class's __slots__.  Where *)
(* the source holds either a str or a node in one field (Assign.var, an    *)
(* element of FString.parts) the str is the record                         *)
(* [kind |-> "str", value |-> text], so that isinstance can be decided.    *)
(* A call that may raise returns a record with a field exc: "" when it     *)
(* returned normally, the exception's message when it raised.              *)
(***************************************************************************)
EXTENDS Integers, Sequences, FiniteSets, TLC

VARIABLES
    gen,      \* the JavaGen object: lines, indent, tc, imports, class_name, exc
    node,     \* the argument of the latest gen_stmt_scalar / gen_expr call
    expr_out, \* the latest direct gen_expr call: its vector flag and result
    out,      \* the text returned by get_output
    pc,       \* where the caller (or compile_jpp) stands
    n,        \* number of calls made in the current phase
    source,   \* the source file: whether it exists, and its text
    run,      \* the --run flag
    code,     \* the text compile_jpp read
    tokens,   \* the token list
    program,  \* what the parser returned or raised: [exc, val, pos]
    file,     \* the .java file this run wrote: <<>> or <<text>>
    diag,     \* the diagnostic printed before sys.exit(1)
    status,   \* the exit status, once pc = "exit"
    stages,   \* the stages compile_jpp has started, in the order it started them
    twin,     \* a second JavaGen object, made for the same program, and its text
    cursor,   \* Parser.pos while one of the parser's loops is followed turn by turn
    jvm       \* the emitted loops of a for statement when run: species length,
              \* bound, the loop reached, its counter i, visits per index

genVars == <<gen, node, expr_out, out, n, twin, jvm>>
pipeVars == <<source, run, code, tokens, program, file, diag, status, stages, cursor>>
vars == <<gen, node, expr_out, out, pc, n, source, run, code, tokens, program,
          file, diag, status, stages, twin, cursor, jvm>>

---------------------------------------------------------------------------
(* Bounds of the model *)

\* number of register_var calls an external caller makes before generating
MaxReg == 2
\* the depth of a tree at which the generator's recursion runs into the
\* interpreter's recursion limit (about a thousand frames in CPython)
RecursionLimit == 4
\* number of top-level statements fed to one JavaGen
MaxStmts == 2
\* number of simple statements in a block of the generated if-programs
MaxBody == 1
\* number of binary operators in a generated expression
MaxOps == 3
\* length of the arbitrary token lists (the end-of-input token aside)
MaxToks == 3

---------------------------------------------------------------------------
(* Python built-ins used by the source *)

\* str.endswith
EndsWith(s, suf) ==
    /\ Len(s) >= Len(suf)
    /\ SubSeq(s, Len(s) - Len(suf) + 1, Len(s)) = suf

\* str.startswith (used by the properties to recognise emitted lines)
StartsWith(s, pre) ==
    /\ Len(s) >= Len(pre)
    /\ SubSeq(s, 1, Len(pre)) = pre

\* dict.get(key, default)
DictGet(d, k, default) == IF k \in DOMAIN d THEN d[k] ELSE default

\* d[k] = v on a dict: the key is added or its value replaced
DictSet(d, k, v) == [x \in DOMAIN d \cup {k} |-> IF x = k THEN v ELSE d[x]]

\* "    " * k
RECURSIVE Indent(_)
Indent(k) == IF k <= 0 THEN "" ELSE "    " \o Indent(k - 1)

\* sep.join(parts)
RECURSIVE Join(_, _)
Join(parts, sep) ==
    IF parts = <<>> THEN ""
    ELSE IF Len(parts) = 1 THEN parts[1]
    ELSE parts[1] \o sep \o Join(Tail(parts), sep)

---------------------------------------------------------------------------
(* ast.py: the node classes *)

\* None, and the str and list values of fields that may also hold None or a node
None == [kind |-> "None"]
str(text) == [kind |-> "str", value |-> text]
list(items) == [kind |-> "list", items |-> items]
Program(stmts) == [kind |-> "Program", stmts |-> stmts]
ClassDef(name, fields, methods, implements) ==
    [kind |-> "ClassDef", name |-> name, fields |-> fields, methods |-> methods,
     implements |-> implements]
FuncDef(name, params, param_types, ret_type, body) ==
    [kind |-> "FuncDef", name |-> name, params |-> params,
     param_types |-> param_types, ret_type |-> ret_type, body |-> body]
Return(expr) == [kind |-> "Return", expr |-> expr]
Assign(var, expr) == [kind |-> "Assign", var |-> var, expr |-> expr]
IfStmt(cond, body, orelse) ==
    [kind |-> "IfStmt", cond |-> cond, body |-> body, orelse |-> orelse]
WhileStmt(cond, body) == [kind |-> "WhileStmt", cond |-> cond, body |-> body]
ForStmt(var, start, end, body) ==
    [kind |-> "ForStmt", var |-> var, start |-> start, end |-> end, body |-> body]
Call(name, args) == [kind |-> "Call", name |-> name, args |-> args]
Var(name) == [kind |-> "Var", name |-> name]
ArrayAccess(array, index) == [kind |-> "ArrayAccess", array |-> array, index |-> index]
BinOp(left, op, right) == [kind |-> "BinOp", left |-> left, op |-> op, right |-> right]
SelectExpr(cond, if_true, if_false) ==
    [kind |-> "SelectExpr", cond |-> cond, if_true |-> if_true, if_false |-> if_false]
SafeNav(obj, field) == [kind |-> "SafeNav", obj |-> obj, field |-> field]
FString(parts) == [kind |-> "FString", parts |-> parts]
IntLiteral(value) == [kind |-> "IntLiteral", value |-> value]
FloatLiteral(value) == [kind |-> "FloatLiteral", value |-> value]
StringLiteral(value) == [kind |-> "StringLiteral", value |-> value]

---------------------------------------------------------------------------
(* pre.py: the lexer *)

Token(typ, val) == [type |-> typ, val |-> val]

Digits == {"0", "1", "2", "3", "4", "5", "6", "7", "8", "9"}
Letters ==
    {"a", "b", "c", "d", "e", "f", "g", "h", "i", "j", "k", "l", "m", "n", "o",
     "p", "q", "r", "s", "t", "u", "v", "w", "x", "y", "z",
     "A", "B", "C", "D", "E", "F", "G", "H", "I", "J", "K", "L", "M", "N", "O",
     "P", "Q", "R", "S", "T", "U", "V", "W", "X", "Y", "Z", "_"}

\* the character of the text at index i (from 1), "" past its end
CharAt(text, i) == IF i >= 1 /\ i <= Len(text) THEN SubSeq(text, i, i) ELSE ""

\* the length of the longest run of characters of class C from index i: C+ or C*
RECURSIVE RunLen(_, _, _)
RunLen(text, i, C) ==
    IF CharAt(text, i) \in C THEN 1 + RunLen(text, i + 1, C) ELSE 0

\* COMMENT  \#[^\n]*  : the length of the match at i, 0 when there is none
RECURSIVE UntilNewline(_, _)
UntilNewline(text, i) ==
    IF CharAt(text, i) \in {"", "\n"} THEN 0 ELSE 1 + UntilNewline(text, i + 1)
MatchComment(text, i) ==
    IF CharAt(text, i) = "#" THEN 1 + UntilNewline(text, i + 1) ELSE 0

\* FLOAT_LITERAL  \d+\.\d+
MatchFloat(text, i) ==
    LET a == RunLen(text, i, Digits)
        b == RunLen(text, i + a + 1, Digits)
    IN  IF a > 0 /\ CharAt(text, i + a) = "." /\ b > 0 THEN a + 1 + b ELSE 0

\* INT_LITERAL  \d+
MatchInt(text, i) == RunLen(text, i, Digits)

\* STRING_LITERAL  "(?:[^"\\]|\\.)*"
RECURSIVE StringBody(_, _)
StringBody(text, i) ==
    LET c == CharAt(text, i)
    IN  IF c = "" \/ c = "\"" THEN 0
        ELSE IF c = "\\"
             THEN IF CharAt(text, i + 1) \in {"", "\n"} THEN 0
                  ELSE 2 + StringBody(text, i + 2)
        ELSE 1 + StringBody(text, i + 1)
MatchString(text, i) ==
    IF CharAt(text, i) # "\"" THEN 0
    ELSE LET b == StringBody(text, i + 1)
         IN  IF CharAt(text, i + 1 + b) = "\"" THEN b + 2 ELSE 0

\* ID  [A-Za-z_][A-Za-z0-9_]*
MatchId(text, i) ==
    IF CharAt(text, i) \in Letters
    THEN 1 + RunLen(text, i + 1, Letters \cup Digits) ELSE 0

\* OP  \?\.|==|!=|<=|>=|[+\-*/%<>]=?|=
MatchOp(text, i) ==
    LET c == CharAt(text, i)
        d == CharAt(text, i + 1)
    IN  IF c \o d \in {"?.", "==", "!=", "<=", ">="} THEN 2
        ELSE IF c \in {"+", "-", "*", "/", "%", "<", ">"}
             THEN (IF d = "=" THEN 2 ELSE 1)
        ELSE IF c = "=" THEN 1
        ELSE 0

\* the single-character kinds: LBRACK RBRACK LPAREN RPAREN COLON COMMA SEMICOLON NEWLINE
Punct ==
    [c \in {"[", "]", "(", ")", ":", ",", ";", "\n"} |->
        CASE c = "[" -> "LBRACK" [] c = "]" -> "RBRACK"
          [] c = "(" -> "LPAREN" [] c = ")" -> "RPAREN"
          [] c = ":" -> "COLON"  [] c = "," -> "COMMA"
          [] c = ";" -> "SEMICOLON" [] OTHER -> "NEWLINE"]

\* TOKEN_RE at index i: the first alternative of TOKEN_SPEC that matches, as
\* [kind, len]
MatchAt(text, i) ==
    IF MatchComment(text, i) > 0 THEN [kind |-> "COMMENT", len |-> MatchComment(text, i)]
    ELSE IF MatchFloat(text, i) > 0 THEN [kind |-> "FLOAT_LITERAL", len |-> MatchFloat(text, i)]
    ELSE IF MatchInt(text, i) > 0 THEN [kind |-> "INT_LITERAL", len |-> MatchInt(text, i)]
    ELSE IF MatchString(text, i) > 0 THEN [kind |-> "STRING_LITERAL", len |-> MatchString(text, i)]
    ELSE IF MatchId(text, i) > 0 THEN [kind |-> "ID", len |-> MatchId(text, i)]
    ELSE IF MatchOp(text, i) > 0 THEN [kind |-> "OP", len |-> MatchOp(text, i)]
    ELSE IF CharAt(text, i) \in DOMAIN Punct THEN [kind |-> Punct[CharAt(text, i)], len |-> 1]
    ELSE IF CharAt(text, i) \in {" ", "\t"}
         THEN [kind |-> "SKIP", len |-> RunLen(text, i, {" ", "\t"})]
    ELSE [kind |-> "MISMATCH", len |-> 1]

\* the loop of tokenize from index i on, toks holding the tokens appended
RECURSIVE tokenize_from(_, _, _)
tokenize_from(text, i, toks) ==
    IF i > Len(text) THEN [exc |-> "", val |-> Append(toks, Token("EOF", ""))]
    ELSE LET m == MatchAt(text, i)
             val == SubSeq(text, i, i + m.len - 1)
         IN  IF m.kind \in {"SKIP", "COMMENT"} THEN tokenize_from(text, i + m.len, toks)
             ELSE IF m.kind = "NEWLINE"
                  THEN tokenize_from(text, i + m.len, Append(toks, Token("NEWLINE", "\n")))
             ELSE IF m.kind = "MISMATCH"
                  THEN [exc |-> "Unexpected character: " \o val, val |-> toks]
             ELSE tokenize_from(text, i + m.len, Append(toks, Token(m.kind, val)))

tokenize(text) == tokenize_from(text, 1, <<>>)

---------------------------------------------------------------------------
(* pre.py: the parser.  A parsing method is an operator of the token list  *)
(* and the cursor pos (from 0, as in the source); it returns               *)
(* [exc, val, pos]: the SyntaxError raised ("" when none), the value       *)
(* returned and the cursor it leaves.                                      *)

\* int(tok.val) for a run of digits
DigitValue ==
    [c \in Digits |->
        CASE c = "0" -> 0 [] c = "1" -> 1 [] c = "2" -> 2 [] c = "3" -> 3
          [] c = "4" -> 4 [] c = "5" -> 5 [] c = "6" -> 6 [] c = "7" -> 7
          [] c = "8" -> 8 [] OTHER -> 9]
RECURSIVE PyInt(_)
PyInt(text) ==
    IF text = "" THEN 0
    ELSE 10 * PyInt(SubSeq(text, 1, Len(text) - 1)) + DigitValue[SubSeq(text, Len(text), Len(text))]

\* float(tok.val), held as the text Python prints for it: no leading zeros
\* before the point, no trailing zeros after it (for literals short enough to
\* print without an exponent)
RECURSIVE StripLeadingZeros(_)
StripLeadingZeros(text) ==
    IF Len(text) > 1 /\ Head(text) = "0" THEN StripLeadingZeros(Tail(text)) ELSE text
RECURSIVE StripTrailingZeros(_)
StripTrailingZeros(text) ==
    IF Len(text) > 1 /\ SubSeq(text, Len(text), Len(text)) = "0"
    THEN StripTrailingZeros(SubSeq(text, 1, Len(text) - 1)) ELSE text
PyFloat(text) ==
    LET a == RunLen(text, 1, Digits)
    IN  StripLeadingZeros(SubSeq(text, 1, a)) \o "."
        \o StripTrailingZeros(SubSeq(text, a + 2, Len(text)))

\* Parser.curr: tokens[pos], the end-of-input token past the list
curr(toks, pos) ==
    IF pos < Len(toks) THEN toks[pos + 1] ELSE Token("EOF", "")

Ok(val, pos) == [exc |-> "", val |-> val, pos |-> pos]
SyntaxError(msg, pos) == [exc |-> msg, val |-> None, pos |-> pos]

advance(pos) == pos + 1

match(toks, pos, typ) ==
    IF curr(toks, pos).type # typ
    THEN SyntaxError("Expected " \o typ \o ", got " \o curr(toks, pos).type, pos)
    ELSE Ok(curr(toks, pos).val, advance(pos))

\* a chain of match calls: the first that raises ends it
RECURSIVE match_all(_, _, _)
match_all(toks, pos, typs) ==
    IF typs = <<>> THEN Ok("", pos)
    ELSE LET m == match(toks, pos, Head(typs))
         IN  IF m.exc # "" THEN m ELSE match_all(toks, m.pos, Tail(typs))

_precedence(op) ==
    IF op \in {"*", "/", "%"} THEN 3
    ELSE IF op \in {"+", "-"} THEN 2
    ELSE IF op \in {"==", "!=", ">", "<", ">=", "<="} THEN 1
    ELSE IF op = "=" THEN 0
    ELSE -1

\* line 297 without the + 1: equal operators would group to the right
climb_same(prec) == prec

\* line 297: the minimum precedence of the right operand
climb(prec) == prec + 1

\* line 240 with a second keyword: a block would also end at "if"
block_ends_at_if(tok) == tok.type = "ID" /\ tok.val \in {"else", "if"}

\* line 240: the token that ends a block
block_ends(tok) == tok.type = "ID" /\ tok.val \in {"else"}

_consume_stmt_end(toks, pos) ==
    IF curr(toks, pos).type \in {"NEWLINE", "SEMICOLON"} THEN advance(pos) ELSE pos

RECURSIVE parse_stmt(_, _)
RECURSIVE parse_if(_, _)
RECURSIVE parse_while(_, _)
RECURSIVE parse_for(_, _)
RECURSIVE parse_func(_, _)
RECURSIVE parse_params(_, _, _, _)
RECURSIVE parse_block(_, _)
RECURSIVE parse_block_loop(_, _, _)
RECURSIVE parse_assign_or_call(_, _)
RECURSIVE parse_args(_, _, _)
RECURSIVE parse_expr(_, _)
RECURSIVE parse_binop(_, _, _)
RECURSIVE parse_binop_loop(_, _, _, _)
RECURSIVE parse_primary(_, _)
RECURSIVE self(_, _, _, _)

\* line 95: the loop of parse_program goes on
program_continues(toks, pos) == curr(toks, pos).type # "EOF"

\* lines 96-98 without the advance: a newline is looked at and left there
program_iter_peek(toks, pos) ==
    IF curr(toks, pos).type = "NEWLINE" THEN Ok(None, pos)
    ELSE self("parse_stmt", 0, toks, pos)

\* lines 96-100: one turn of the loop of parse_program; the statement, or
\* None for a skipped newline
program_iter(toks, pos) ==
    IF curr(toks, pos).type = "NEWLINE" THEN Ok(None, advance(pos))
    ELSE self("parse_stmt", 0, toks, pos)

\* the while loop of parse_program (lines 95-102), stmts holding what was appended
RECURSIVE parse_program_loop(_, _, _)
parse_program_loop(toks, pos, stmts) ==
    IF curr(toks, pos).type = "EOF" THEN Ok(Program(stmts), pos)
    ELSE IF curr(toks, pos).type = "NEWLINE"
         THEN parse_program_loop(toks, advance(pos), stmts)
    ELSE LET stmt == self("parse_stmt", 0, toks, pos)
         IN  IF stmt.exc # "" THEN stmt
             ELSE parse_program_loop(toks, stmt.pos,
                     IF stmt.val # None THEN Append(stmts, stmt.val) ELSE stmts)

\* Parser(tokens).parse_program()
parse_program(toks) == parse_program_loop(toks, 0, <<>>)

parse_stmt(toks, pos) ==
    IF curr(toks, pos).type = "ID"
    THEN LET kw == curr(toks, pos).val
         IN  IF kw = "if" THEN self("parse_if", 0, toks, pos)
             ELSE IF kw = "while" THEN self("parse_while", 0, toks, pos)
             ELSE IF kw = "for" THEN self("parse_for", 0, toks, pos)
             ELSE IF kw = "def" THEN self("parse_func", 0, toks, pos)
             ELSE IF kw = "return"
                  THEN LET p1 == advance(pos)
                       IN  IF curr(toks, p1).type \notin {"NEWLINE", "SEMICOLON", "EOF"}
                           THEN LET e == self("parse_expr", 0, toks, p1)
                                IN  IF e.exc # "" THEN e
                                    ELSE Ok(Return(e.val), _consume_stmt_end(toks, e.pos))
                           ELSE Ok(Return(None), _consume_stmt_end(toks, p1))
             ELSE self("parse_assign_or_call", 0, toks, pos)
    ELSE IF curr(toks, pos).type = "NEWLINE" THEN Ok(None, advance(pos))
    ELSE SyntaxError("Unexpected token: " \o curr(toks, pos).type, pos)

parse_if(toks, pos) ==
    LET kw == match(toks, pos, "ID")
        cond == self("parse_expr", 0, toks, kw.pos)
    IN  IF kw.exc # "" THEN kw
        ELSE IF cond.exc # "" THEN cond
        ELSE LET colon == match(toks, cond.pos, "COLON")
             IN  IF colon.exc # "" THEN colon
                 ELSE LET body == self("parse_block", 0, toks, colon.pos)
                      IN  IF body.exc # "" THEN body
                          ELSE IF curr(toks, body.pos).type = "ID"
                                  /\ curr(toks, body.pos).val = "else"
                          THEN LET c2 == match(toks, advance(body.pos), "COLON")
                               IN  IF c2.exc # "" THEN c2
                                   ELSE LET orelse == self("parse_block", 0, toks, c2.pos)
                                        IN  IF orelse.exc # "" THEN orelse
                                            ELSE Ok(IfStmt(cond.val, body.val, list(orelse.val)),
                                                    orelse.pos)
                          ELSE Ok(IfStmt(cond.val, body.val, None), body.pos)

parse_while(toks, pos) ==
    LET kw == match(toks, pos, "ID")
        cond == self("parse_expr", 0, toks, kw.pos)
    IN  IF kw.exc # "" THEN kw
        ELSE IF cond.exc # "" THEN cond
        ELSE LET colon == match(toks, cond.pos, "COLON")
             IN  IF colon.exc # "" THEN colon
                 ELSE LET body == self("parse_block", 0, toks, colon.pos)
                      IN  IF body.exc # "" THEN body
                          ELSE Ok(WhileStmt(cond.val, body.val), body.pos)

parse_for(toks, pos) ==
    LET kw == match(toks, pos, "ID")
        var == match(toks, kw.pos, "ID")
    IN  IF kw.exc # "" THEN kw
        ELSE IF var.exc # "" THEN var
        ELSE LET head == match_all(toks, var.pos, <<"COLON", "ID", "LPAREN">>)
             IN  IF head.exc # "" THEN head
                 ELSE LET start == self("parse_expr", 0, toks, head.pos)
                      IN  IF start.exc # "" THEN start
                          ELSE LET comma == match(toks, start.pos, "COMMA")
                               IN  IF comma.exc # "" THEN comma
                                   ELSE LET end == self("parse_expr", 0, toks, comma.pos)
                                        IN  IF end.exc # "" THEN end
                                            ELSE LET close == match_all(toks, end.pos, <<"RPAREN", "COLON">>)
                                                 IN  IF close.exc # "" THEN close
                                                     ELSE LET body == self("parse_block", 0, toks, close.pos)
                                                          IN  IF body.exc # "" THEN body
                                                              ELSE Ok(ForStmt(var.val, start.val, end.val, body.val), body.pos)

\* lines 198, 274, 335: the loop over parameters or arguments goes on
list_continues(toks, pos) == curr(toks, pos).type # "RPAREN"

\* lines 199-210: one turn of the parameter loop; the name and its type
param_iter(toks, pos) ==
    LET pname == match(toks, pos, "ID")
    IN  IF pname.exc # "" THEN pname
        ELSE LET ptype == IF curr(toks, pname.pos).type = "COLON"
                          THEN match(toks, advance(pname.pos), "ID")
                          ELSE Ok("var", pname.pos)
             IN  IF ptype.exc # "" THEN ptype
                 ELSE Ok([name |-> pname.val, type |-> ptype.val],
                         IF curr(toks, ptype.pos).type = "COMMA"
                         THEN advance(ptype.pos) ELSE ptype.pos)

\* the while loop of parse_func (lines 198-210)
parse_params(toks, pos, params, param_types) ==
    IF curr(toks, pos).type = "RPAREN"
    THEN Ok([params |-> params, param_types |-> param_types], pos)
    ELSE LET pname == match(toks, pos, "ID")
         IN  IF pname.exc # "" THEN pname
             ELSE LET ptype == IF curr(toks, pname.pos).type = "COLON"
                               THEN match(toks, advance(pname.pos), "ID")
                               ELSE Ok("var", pname.pos)
                  IN  IF ptype.exc # "" THEN ptype
                      ELSE parse_params(toks,
                              IF curr(toks, ptype.pos).type = "COMMA"
                              THEN advance(ptype.pos) ELSE ptype.pos,
                              Append(params, pname.val), Append(param_types, ptype.val))

parse_func(toks, pos) ==
    LET kw == match(toks, pos, "ID")
        name == match(toks, kw.pos, "ID")
    IN  IF kw.exc # "" THEN kw
        ELSE IF name.exc # "" THEN name
        ELSE LET open == match(toks, name.pos, "LPAREN")
             IN  IF open.exc # "" THEN open
                 ELSE LET ps == parse_params(toks, open.pos, <<>>, <<>>)
                      IN  IF ps.exc # "" THEN ps
                          ELSE LET close == match(toks, ps.pos, "RPAREN")
                                   ret_type == IF curr(toks, close.pos).type = "COLON"
                                               THEN match(toks, advance(close.pos), "ID")
                                               ELSE Ok("void", close.pos)
                               IN  IF close.exc # "" THEN close
                                   ELSE IF ret_type.exc # "" THEN ret_type
                                   ELSE LET colon == match(toks, ret_type.pos, "COLON")
                                        IN  IF colon.exc # "" THEN colon
                                            ELSE LET body == self("parse_block", 0, toks, colon.pos)
                                                 IN  IF body.exc # "" THEN body
                                                     ELSE Ok(FuncDef(name.val, ps.val.params, ps.val.param_types,
                                                                     ret_type.val, body.val), body.pos)

\* lines 234 and 240-241: the loop of parse_block goes on
block_continues(toks, pos) ==
    curr(toks, pos).type # "EOF" /\ ~block_ends(curr(toks, pos))

\* lines 235-243: one turn of the loop of parse_block
block_iter(toks, pos) ==
    IF curr(toks, pos).type = "NEWLINE" THEN Ok(None, advance(pos))
    ELSE self("parse_stmt", 0, toks, pos)

\* the while loop of parse_block (lines 234-245)
parse_block_loop(toks, pos, stmts) ==
    IF curr(toks, pos).type = "EOF" THEN Ok(stmts, pos)
    ELSE IF curr(toks, pos).type = "NEWLINE"
         THEN parse_block_loop(toks, advance(pos), stmts)
    ELSE IF block_ends(curr(toks, pos)) THEN Ok(stmts, pos)
    ELSE LET stmt == self("parse_stmt", 0, toks, pos)
         IN  IF stmt.exc # "" THEN stmt
             ELSE parse_block_loop(toks, stmt.pos,
                     IF stmt.val # None THEN Append(stmts, stmt.val) ELSE stmts)

parse_block(toks, pos) ==
    parse_block_loop(toks,
        IF curr(toks, pos).type = "NEWLINE" THEN advance(pos) ELSE pos, <<>>)

\* lines 275-277 and 336-338: one turn of an argument loop
arg_iter(toks, pos) ==
    LET a == self("parse_expr", 0, toks, pos)
    IN  IF a.exc # "" THEN a
        ELSE Ok(a.val, IF curr(toks, a.pos).type = "COMMA" THEN advance(a.pos) ELSE a.pos)

\* the two argument loops (lines 274-277 and 335-338)
parse_args(toks, pos, args) ==
    IF curr(toks, pos).type = "RPAREN" THEN Ok(args, pos)
    ELSE LET a == self("parse_expr", 0, toks, pos)
         IN  IF a.exc # "" THEN a
             ELSE parse_args(toks,
                     IF curr(toks, a.pos).type = "COMMA" THEN advance(a.pos) ELSE a.pos,
                     Append(args, a.val))

parse_assign_or_call(toks, pos) ==
    LET name == match(toks, pos, "ID")
    IN  IF name.exc # "" THEN name
        ELSE IF curr(toks, name.pos).type = "LBRACK"
        THEN LET index == self("parse_expr", 0, toks, advance(name.pos))
             IN  IF index.exc # "" THEN index
                 ELSE LET m == match_all(toks, index.pos, <<"RBRACK", "OP">>)
                      IN  IF m.exc # "" THEN m
                          ELSE LET expr == self("parse_expr", 0, toks, m.pos)
                               IN  IF expr.exc # "" THEN expr
                                   ELSE Ok(Assign(ArrayAccess(name.val, index.val), expr.val),
                                           _consume_stmt_end(toks, expr.pos))
        ELSE IF curr(toks, name.pos).type = "OP" /\ curr(toks, name.pos).val = "="
        THEN LET expr == self("parse_expr", 0, toks, advance(name.pos))
             IN  IF expr.exc # "" THEN expr
                 ELSE Ok(Assign(str(name.val), expr.val), _consume_stmt_end(toks, expr.pos))
        ELSE IF curr(toks, name.pos).type = "LPAREN"
        THEN LET args == parse_args(toks, advance(name.pos), <<>>)
             IN  IF args.exc # "" THEN args
                 ELSE LET close == match(toks, args.pos, "RPAREN")
                      IN  IF close.exc # "" THEN close
                          ELSE Ok(Call(name.val, args.val), _consume_stmt_end(toks, close.pos))
        ELSE Ok(Call(name.val, <<>>), _consume_stmt_end(toks, name.pos))

parse_expr(toks, pos) == parse_binop(toks, pos, 0)

\* line 293: the loop of parse_binop goes on
binop_continues(toks, pos, min_prec) ==
    curr(toks, pos).type = "OP" /\ _precedence(curr(toks, pos).val) >= min_prec

\* lines 294-298: one turn of the loop of parse_binop; the tree so far
binop_iter(toks, pos, left) ==
    LET op == curr(toks, pos).val
        prec == _precedence(op)
        right == self("parse_binop", climb(prec), toks, advance(pos))
    IN  IF right.exc # "" THEN right
        ELSE Ok(BinOp(left, op, right.val), right.pos)

\* the while loop of parse_binop (lines 293-298), left holding the tree so far
parse_binop_loop(toks, pos, min_prec, left) ==
    IF curr(toks, pos).type = "OP" /\ _precedence(curr(toks, pos).val) >= min_prec
    THEN LET op == curr(toks, pos).val
             prec == _precedence(op)
             right == self("parse_binop", climb(prec), toks, advance(pos))
         IN  IF right.exc # "" THEN right
             ELSE parse_binop_loop(toks, right.pos, min_prec, BinOp(left, op, right.val))
    ELSE Ok(left, pos)

parse_binop(toks, pos, min_prec) ==
    LET left == self("parse_primary", 0, toks, pos)
    IN  IF left.exc # "" THEN left
        ELSE parse_binop_loop(toks, left.pos, min_prec, left.val)

parse_primary(toks, pos) ==
    LET tok == curr(toks, pos)
    IN  IF tok.type = "INT_LITERAL" THEN Ok(IntLiteral(PyInt(tok.val)), advance(pos))
        ELSE IF tok.type = "FLOAT_LITERAL" THEN Ok(FloatLiteral(PyFloat(tok.val)), advance(pos))
        ELSE IF tok.type = "STRING_LITERAL"
             THEN Ok(StringLiteral(SubSeq(tok.val, 2, Len(tok.val) - 1)), advance(pos))
        ELSE IF tok.type = "ID"
        THEN LET p1 == advance(pos)
             IN  IF curr(toks, p1).type = "OP" /\ curr(toks, p1).val = "?."
                 THEN LET fld == match(toks, advance(p1), "ID")
                      IN  IF fld.exc # "" THEN fld
                          ELSE Ok(SafeNav(Var(tok.val), fld.val), fld.pos)
                 ELSE IF curr(toks, p1).type = "LBRACK"
                 THEN LET index == self("parse_expr", 0, toks, advance(p1))
                      IN  IF index.exc # "" THEN index
                          ELSE LET close == match(toks, index.pos, "RBRACK")
                               IN  IF close.exc # "" THEN close
                                   ELSE Ok(ArrayAccess(tok.val, index.val), close.pos)
                 ELSE IF curr(toks, p1).type = "LPAREN"
                 THEN LET args == parse_args(toks, advance(p1), <<>>)
                      IN  IF args.exc # "" THEN args
                          ELSE LET close == match(toks, args.pos, "RPAREN")
                               IN  IF close.exc # "" THEN close
                                   ELSE Ok(Call(tok.val, args.val), close.pos)
                 ELSE Ok(Var(tok.val), p1)
        ELSE IF tok.type = "LPAREN"
        THEN LET expr == self("parse_expr", 0, toks, advance(pos))
             IN  IF expr.exc # "" THEN expr
                 ELSE LET close == match(toks, expr.pos, "RPAREN")
                      IN  IF close.exc # "" THEN close
                          ELSE Ok(expr.val, close.pos)
        ELSE SyntaxError("Unexpected token in expression: " \o tok.type, pos)

\* self.<method>(...): a call of a parsing method on the parser object
self(method, min_prec, toks, pos) ==
    CASE method = "parse_stmt" -> parse_stmt(toks, pos)
      [] method = "parse_if" -> parse_if(toks, pos)
      [] method = "parse_while" -> parse_while(toks, pos)
      [] method = "parse_for" -> parse_for(toks, pos)
      [] method = "parse_func" -> parse_func(toks, pos)
      [] method = "parse_block" -> parse_block(toks, pos)
      [] method = "parse_assign_or_call" -> parse_assign_or_call(toks, pos)
      [] method = "parse_expr" -> parse_expr(toks, pos)
      [] method = "parse_binop" -> parse_binop(toks, pos, min_prec)
      [] method = "parse_primary" -> parse_primary(toks, pos)

---------------------------------------------------------------------------
(* jppc.py: TypeChecker *)

\* TypeChecker.__init__
TypeChecker == [vars |-> <<>>, funcs |-> <<>>]

\* line 27 without the slice: the array's own type tag
item_type_whole(arr_type) == arr_type

\* line 27: arr_type[:-2] if arr_type.endswith("[]") else "var"
item_type(arr_type) ==
    IF EndsWith(arr_type, "[]")
    THEN SubSeq(arr_type, 1, Len(arr_type) - 2)
    ELSE "var"

RECURSIVE infer_expr(_, _)
infer_expr(tc, nd) ==
    CASE nd.kind = "IntLiteral" -> "int"
      [] nd.kind = "FloatLiteral" -> "float"
      [] nd.kind = "StringLiteral" -> "String"
      [] nd.kind = "Var" -> DictGet(tc.vars, nd.name, "var")
      [] nd.kind = "ArrayAccess" ->
            item_type(DictGet(tc.vars, nd.array, "int[]"))
      [] nd.kind = "BinOp" ->
            LET lt == infer_expr(tc, nd.left)
                rt == infer_expr(tc, nd.right)
            IN  IF "String" \in {lt, rt} THEN "String"
                ELSE IF "float" \in {lt, rt} THEN "float"
                ELSE "int"
      [] nd.kind = "Call" ->
            IF nd.name \in DOMAIN tc.funcs THEN tc.funcs[nd.name].ret ELSE "var"
      [] nd.kind = "SelectExpr" ->
            LET t1 == infer_expr(tc, nd.if_true)
                t2 == infer_expr(tc, nd.if_false)
            IN  IF "String" \in {t1, t2} THEN "String"
                ELSE IF "float" \in {t1, t2} THEN "float"
                ELSE "int"
      [] nd.kind = "FString" -> "String"
      [] OTHER -> "var"

register_var(tc, name, typ) ==
    [tc EXCEPT !.vars = DictSet(tc.vars, name, typ)]

---------------------------------------------------------------------------
(* jppc.py: JavaGen *)

\* Path(filename).stem.capitalize() for the default filename "Main"
DefaultClassName == "Main"

\* JavaGen.__init__.  set_order is the order in which this process iterates
\* a set of names (Python's str hashing is seeded per process); exc is the
\* exception that left the latest call, "" when it returned.
JavaGen(class_name, set_order) ==
    [lines |-> <<>>, indent |-> 2, tc |-> TypeChecker, imports |-> {},
     class_name |-> class_name, set_order |-> set_order, exc |-> ""]

emit(g, line) ==
    [g EXCEPT !.lines = Append(g.lines, Indent(g.indent) \o line)]

\* raise RuntimeError(msg) out of a method of g
Raise(g, msg) == [g EXCEPT !.exc = msg]

\* the value gen_expr returns, or the exception it raises
Returned(s) == [exc |-> "", val |-> s]
Raised(msg) == [exc |-> msg, val |-> ""]

RECURSIVE gen_expr(_, _, _, _)
RECURSIVE gen_args(_, _, _, _)
RECURSIVE gen_parts(_, _)

\* [self.gen_expr(a, vector, arrays) for a in node.args], left to right
gen_args(g, args, vector, arrays) ==
    IF args = <<>> THEN [exc |-> "", val |-> <<>>]
    ELSE LET a == gen_expr(g, Head(args), vector, arrays)
         IN  IF a.exc # "" THEN [exc |-> a.exc, val |-> <<>>]
             ELSE LET rest == gen_args(g, Tail(args), vector, arrays)
                  IN  IF rest.exc # "" THEN rest
                      ELSE [exc |-> "", val |-> <<a.val>> \o rest.val]

\* the list comprehension over FString.parts
gen_parts(g, parts) ==
    IF parts = <<>> THEN [exc |-> "", val |-> <<>>]
    ELSE LET p == Head(parts)
             a == IF p.kind = "str"
                  THEN Returned("\"" \o p.value \o "\"")
                  ELSE gen_expr(g, p, FALSE, {})
         IN  IF a.exc # "" THEN [exc |-> a.exc, val |-> <<>>]
             ELSE LET rest == gen_parts(g, Tail(parts))
                  IN  IF rest.exc # "" THEN rest
                      ELSE [exc |-> "", val |-> <<a.val>> \o rest.val]

\* line 109: the test that selects the structural-equality rewrite
string_eq_right(tc, nd) ==
    nd.op = "==" /\ infer_expr(tc, nd.right) = "String"

string_eq(tc, nd) ==
    nd.op = "==" /\ infer_expr(tc, nd.left) = "String"

gen_expr(g, nd, vector, arrays) ==
    CASE nd.kind = "IntLiteral" -> Returned(ToString(nd.value))
      [] nd.kind = "FloatLiteral" -> Returned(nd.value \o "f")
      [] nd.kind = "StringLiteral" -> Returned("\"" \o nd.value \o "\"")
      [] nd.kind = "Var" ->
            Returned(IF vector /\ nd.name \in arrays
                     THEN "v_" \o nd.name ELSE nd.name)
      [] nd.kind = "ArrayAccess" ->
            LET idx == gen_expr(g, nd.index, vector, arrays)
            IN  IF idx.exc # "" THEN idx
                ELSE Returned(nd.array \o "[" \o idx.val \o "]")
      [] nd.kind = "Call" ->
            LET name == IF nd.name = "print" THEN "System.out.println" ELSE nd.name
                args == gen_args(g, nd.args, vector, arrays)
            IN  IF args.exc # "" THEN Raised(args.exc)
                ELSE Returned(name \o "(" \o Join(args.val, ",") \o ")")
      [] nd.kind = "BinOp" ->
            LET l == gen_expr(g, nd.left, vector, arrays)
                r == gen_expr(g, nd.right, vector, arrays)
            IN  IF l.exc # "" THEN l
                ELSE IF r.exc # "" THEN r
                ELSE IF vector /\ nd.op = "+" THEN Returned(l.val \o ".add(" \o r.val \o ")")
                ELSE IF vector /\ nd.op = "-" THEN Returned(l.val \o ".sub(" \o r.val \o ")")
                ELSE IF vector /\ nd.op = "*" THEN Returned(l.val \o ".mul(" \o r.val \o ")")
                ELSE IF vector /\ nd.op = "/" THEN Returned(l.val \o ".div(" \o r.val \o ")")
                ELSE IF string_eq(g.tc, nd)
                     THEN Returned(l.val \o ".equals(" \o r.val \o ")")
                ELSE Returned("(" \o l.val \o " " \o nd.op \o " " \o r.val \o ")")
      [] nd.kind = "SelectExpr" ->
            LET c == gen_expr(g, nd.cond, vector, arrays)
                t == gen_expr(g, nd.if_true, vector, arrays)
                f == gen_expr(g, nd.if_false, vector, arrays)
            IN  IF c.exc # "" THEN c
                ELSE IF t.exc # "" THEN t
                ELSE IF f.exc # "" THEN f
                ELSE Returned("(" \o c.val \o "?" \o t.val \o ":" \o f.val \o ")")
      [] nd.kind = "SafeNav" ->
            LET obj == gen_expr(g, nd.obj, FALSE, {})
            IN  IF obj.exc # "" THEN obj
                ELSE Returned("(" \o obj.val \o "!=null?" \o obj.val \o "."
                              \o nd.field \o ":null)")
      [] nd.kind = "FString" ->
            LET parts == gen_parts(g, nd.parts)
            IN  IF parts.exc # "" THEN Raised(parts.exc)
                ELSE Returned(Join(parts.val, " + "))
      [] OTHER -> Raised("Unsupported expr: " \o nd.kind)

RECURSIVE gen_stmt_scalar(_, _)
RECURSIVE gen_stmt_vector(_, _)
RECURSIVE gen_body(_, _)
RECURSIVE gen_vector_body(_, _, _)

\* for s in body: self.gen_stmt_scalar(s); an exception ends the loop
gen_body(g, body) ==
    IF g.exc # "" \/ body = <<>> THEN g
    ELSE gen_body(gen_stmt_scalar(g, Head(body)), Tail(body))

\* line 146 read the wrong way round: every plain assignment declares
seen_never(g, name) == FALSE

\* line 146: node.var not in self.tc.vars, negated
seen(g, name) == name \in DOMAIN g.tc.vars

gen_stmt_scalar(g, nd) ==
    CASE nd.kind = "Assign" ->
            LET val == gen_expr(g, nd.expr, FALSE, {})
                typ == infer_expr(g.tc, nd.expr)
            IN  IF val.exc # "" THEN Raise(g, val.exc)
                ELSE IF nd.var.kind = "ArrayAccess"
                THEN LET idx == gen_expr(g, nd.var.index, FALSE, {})
                     IN  IF idx.exc # "" THEN Raise(g, idx.exc)
                         ELSE emit(g, nd.var.array \o "[" \o idx.val \o "] = "
                                      \o val.val \o ";")
                ELSE IF ~seen(g, nd.var.value)
                THEN LET g1 == emit(g, typ \o " " \o nd.var.value \o " = "
                                       \o val.val \o ";")
                     IN  [g1 EXCEPT !.tc = register_var(g1.tc, nd.var.value, typ)]
                ELSE emit(g, nd.var.value \o " = " \o val.val \o ";")
      [] nd.kind = "IfStmt" ->
            LET cond == gen_expr(g, nd.cond, FALSE, {})
            IN  IF cond.exc # "" THEN Raise(g, cond.exc)
                ELSE LET g1 == emit(g, "if(" \o cond.val \o ")" \o "{")
                         g2 == gen_body([g1 EXCEPT !.indent = @ + 1], nd.body)
                     IN  IF g2.exc # "" THEN g2
                         ELSE emit([g2 EXCEPT !.indent = @ - 1], "}")
      [] nd.kind = "ForStmt" -> gen_stmt_vector(g, nd)
      [] nd.kind = "Call" ->
            LET c == gen_expr(g, nd, FALSE, {})
            IN  IF c.exc # "" THEN Raise(g, c.exc)
                ELSE emit(g, c.val \o ";")
      [] nd.kind = "Return" ->
            LET val == IF nd.expr.kind # "None"
                       THEN gen_expr(g, nd.expr, FALSE, {})
                       ELSE Returned("")
            IN  IF val.exc # "" THEN Raise(g, val.exc)
                ELSE emit(g, "return " \o val.val \o ";")
      [] OTHER -> g

\* line 177: the names of the table whose type tag ends in "[]"
\* line 177 without the test on the type tag: every known name an array
array_names_all(tc) == DOMAIN tc.vars

array_names(tc) == {a \in DOMAIN tc.vars : EndsWith(tc.vars[a], "[]")}

\* iteration over the set `arrays` (lines 203, 212), in this process's order
iter_set(g, S) == SelectSeq(g.set_order, LAMBDA a : a \in S)

\* lines 203-204 and 212-213: one line per array, in set order
RECURSIVE emit_each(_, _, _, _)
emit_each(g, names, before, after) ==
    IF names = <<>> THEN g
    ELSE emit_each(emit(g, before[Head(names)] \o after[Head(names)]),
                   Tail(names), before, after)

\* line 207 with the test on the target dropped down to the first match
vector_body_first(body) ==
    LET sel == SelectSeq(body, LAMBDA s : s.kind = "Assign" /\ s.var.kind = "ArrayAccess")
    IN  IF sel = <<>> THEN sel ELSE <<sel[1]>>

\* lines 206-207: the body statements the vector loop translates
vector_body(body) ==
    SelectSeq(body, LAMBDA s : s.kind = "Assign" /\ s.var.kind = "ArrayAccess")

\* lines 208-210, for each statement vector_body selects
gen_vector_body(g, stmts, arrays) ==
    IF g.exc # "" \/ stmts = <<>> THEN g
    ELSE LET s == Head(stmts)
             val == gen_expr(g, s.expr, TRUE, arrays)
         IN  IF val.exc # "" THEN Raise(g, val.exc)
             ELSE gen_vector_body(emit(g, "v_" \o s.var.array \o " = " \o val.val \o ";"),
                                  Tail(stmts), arrays)

\* line 192 forgotten
add_import_never(imports) == imports

\* line 192
add_import(imports) == imports \cup {"jdk.incubator.vector.*"}

gen_stmt_vector(g, nd) ==
    LET arrays == array_names(g.tc)
    IN  IF arrays = {}
        THEN LET start == gen_expr(g, nd.start, FALSE, {})
                 end == gen_expr(g, nd.end, FALSE, {})
             IN  IF start.exc # "" THEN Raise(g, start.exc)
                 ELSE IF end.exc # "" THEN Raise(g, end.exc)
                 ELSE LET g1 == emit(g, "for(int " \o nd.var \o "=" \o start.val \o ";"
                                        \o nd.var \o "<" \o end.val \o ";"
                                        \o nd.var \o "++)" \o "{")
                          g2 == gen_body([g1 EXCEPT !.indent = @ + 1], nd.body)
                      IN  IF g2.exc # "" THEN g2
                          ELSE emit([g2 EXCEPT !.indent = @ - 1], "}")
        ELSE LET vec == IF \E a \in arrays : g.tc.vars[a] = "float[]"
                        THEN "FloatVector" ELSE "IntVector"
                 g0 == [g EXCEPT !.imports = add_import(g.imports)]
                 end == gen_expr(g0, nd.end, FALSE, {})
             IN  IF end.exc # "" THEN Raise(g0, end.exc)
                 ELSE
                 LET order == iter_set(g0, arrays)
                     g1 == emit(g0, "var species = " \o vec \o ".SPECIES_PREFERRED;")
                     g2 == emit(g1, "int bound = species.loopBound(" \o end.val \o ");")
                     g3 == emit(g2, "for(int i=0;i<bound;i+=species.length()){")
                     g4 == emit_each([g3 EXCEPT !.indent = @ + 1], order,
                              [a \in arrays |-> "var v_" \o a \o " = " \o vec],
                              [a \in arrays |-> ".fromArray(species," \o a \o ",i);"])
                     g5 == gen_vector_body(g4, vector_body(nd.body), arrays)
                 IN  IF g5.exc # "" THEN g5
                     ELSE
                     LET g6 == emit_each(g5, order,
                                  [a \in arrays |-> "v_" \o a],
                                  [a \in arrays |-> ".intoArray(" \o a \o ",i);"])
                         g7 == emit([g6 EXCEPT !.indent = @ - 1], "}")
                         g8 == emit(g7, "for(int i=bound;i<" \o end.val \o ";i++)" \o "{")
                         g9 == gen_body([g8 EXCEPT !.indent = @ + 1], nd.body)
                     IN  IF g9.exc # "" THEN g9
                         ELSE emit([g9 EXCEPT !.indent = @ - 1], "}")

\* sorted(self.imports): the set never holds more than the one module name
\* add_import puts there, so any enumeration of it is the sorted one
RECURSIVE sorted(_)
sorted(S) ==
    IF S = {} THEN <<>>
    ELSE LET x == CHOOSE x \in S : TRUE IN <<x>> \o sorted(S \ {x})

RECURSIVE import_lines(_)
import_lines(imps) ==
    IF imps = <<>> THEN <<>>
    ELSE <<"import " \o Head(imps) \o ";">> \o import_lines(Tail(imps))

get_output(g) ==
    LET out1 == import_lines(sorted(g.imports))
        out2 == IF g.imports # {} THEN Append(out1, "") ELSE out1
        out3 == out2 \o <<"public class " \o g.class_name \o " " \o "{",
                          "    public static void main(String[] args) {">>
                \o g.lines \o <<"    }", "}">>
    IN  Join(out3, "\n")

---------------------------------------------------------------------------
(* The generator driven as a library: a caller constructs a JavaGen, may   *)
(* register names with the type checker, feeds statements to               *)
(* gen_stmt_scalar one after the other (as main.py lines 64-65 do) and     *)
(* reads the text with get_output.                                         *)

\* the names the statements below assign to or index
Names == {"a", "x"}

\* the type tags a caller registers
TypeTags == {"int[]", "float[]", "String"}

\* the orders in which a process may iterate a set of names
SetOrders == {o \in [1..Cardinality(Names) -> Names] :
                 \A i, j \in DOMAIN o : i # j => o[i] # o[j]}

e_one == IntLiteral(1)
e_s == StringLiteral("s")
e_ai == ArrayAccess("a", Var("i"))
e_x_eq_s == BinOp(Var("x"), "==", e_s)
e_one_eq_s == BinOp(e_one, "==", e_s)
e_sum == BinOp(e_ai, "+", BinOp(e_ai, "*", Var("x")))
\* a node gen_expr has no rule for
e_bad == Program(<<>>)

\* the expressions handed to gen_expr directly
Exprs ==
    {e_one, e_s, FloatLiteral("1.5"), Var("x"), e_ai, e_x_eq_s, e_one_eq_s, e_sum,
     BinOp(e_ai, "==", e_ai), BinOp(Call("f", <<>>), "==", e_s),
     BinOp(BinOp(e_s, "+", e_one), "==", Var("x")),
     Call("print", <<e_x_eq_s, e_one>>),
     SelectExpr(e_x_eq_s, e_one, e_s), SafeNav(Var("x"), "f"),
     FString(<<str("t"), e_x_eq_s>>),
     e_bad, WhileStmt(e_one, <<>>), BinOp(e_one, "+", e_bad), Call("f", <<e_bad>>)}

s_for ==
    ForStmt("i", IntLiteral(0), Var("n"),
            <<Assign(e_ai, e_sum),
              Assign(str("x"), e_one),
              Call("print", <<e_x_eq_s>>),
              Assign(ArrayAccess("x", Var("i")), BinOp(e_ai, "-", e_one))>>)

\* the statements fed to gen_stmt_scalar
Stmts ==
    {Assign(str("x"), e_one),
     Assign(str("x"), e_s),
     Assign(str("x"), Var("a")),
     Assign(e_ai, e_sum),
     Call("print", <<e_x_eq_s>>),
     IfStmt(e_x_eq_s, <<Assign(str("x"), e_one)>>, list(<<Assign(str("x"), IntLiteral(2))>>)),
     IfStmt(e_one_eq_s, <<Assign(str("x"), e_s), s_for>>, None),
     s_for,
     ForStmt("j", e_one, IntLiteral(3), <<WhileStmt(e_one, <<>>), Return(None)>>),
     ForStmt("i", e_one, e_one, <<Assign(e_ai, e_bad)>>),
     WhileStmt(e_x_eq_s, <<Assign(str("x"), e_one)>>),
     FuncDef("f", <<"p">>, <<"var">>, "void", <<Return(Var("p"))>>),
     ClassDef("C", <<>>, <<>>, None),
     Return(Var("x")),
     Call("f", <<e_bad>>)}

\* no second generator has been made
NoTwin == [gen |-> JavaGen(DefaultClassName, <<>>), out |-> ""]

\* no emitted loop is being run
NoJvm == [length |-> 1, bound |-> 0, loop |-> 0, i |-> 0, visits |-> <<>>]

\* the variables of compile_jpp, untouched while the generator is driven directly
PipeIdle ==
    /\ source = [exists |-> FALSE, text |-> ""]
    /\ run = FALSE
    /\ code = ""
    /\ tokens = <<>>
    /\ program = Ok(None, 0)
    /\ file = <<>>
    /\ diag = ""
    /\ status = 0
    /\ stages = <<>>
    /\ cursor = 0

InitGen ==
    /\ gen \in {JavaGen(DefaultClassName, o) : o \in SetOrders}
    /\ node = None
    /\ twin = NoTwin
    /\ jvm = NoJvm
    /\ expr_out = [vector |-> FALSE, res |-> Returned("")]
    /\ out = ""
    /\ pc = "setup"
    /\ n = 0
    /\ PipeIdle

\* the caller registers a name: gen.tc.register_var(name, typ)
RegisterVar ==
    /\ pc = "setup"
    /\ n < MaxReg
    /\ \E name \in Names, typ \in TypeTags :
          gen' = [gen EXCEPT !.tc = register_var(gen.tc, name, typ)]
    /\ n' = n + 1
    /\ UNCHANGED <<node, expr_out, out, pc>>
    /\ UNCHANGED pipeVars
    /\ UNCHANGED <<twin, jvm>>

\* the caller translates one expression: gen.gen_expr(e, vector, arrays)
GenExpr ==
    /\ pc = "setup"
    /\ \E e \in Exprs, vector \in BOOLEAN :
          /\ node' = e
          /\ expr_out' = [vector |-> vector,
                          res |-> gen_expr(gen, e, vector,
                                     IF vector THEN array_names(gen.tc) ELSE {})]
    /\ pc' = "expr"
    /\ UNCHANGED <<gen, out, n>>
    /\ UNCHANGED pipeVars
    /\ UNCHANGED <<twin, jvm>>

\* the caller feeds one statement: gen.gen_stmt_scalar(stmt)
GenStmt ==
    /\ pc \in {"setup", "gen"}
    /\ gen.exc = ""
    /\ (pc = "gen" => n < MaxStmts)
    /\ \E s \in Stmts :
          /\ node' = s
          /\ gen' = gen_stmt_scalar(gen, s)
    /\ pc' = "gen"
    /\ n' = IF pc = "setup" THEN 1 ELSE n + 1
    /\ UNCHANGED <<expr_out, out>>
    /\ UNCHANGED pipeVars
    /\ UNCHANGED <<twin, jvm>>

\* the caller reads the text: gen.get_output()
GetOutput ==
    /\ pc = "gen"
    /\ gen.exc = ""
    /\ out' = get_output(gen)
    /\ pc' = "done"
    /\ UNCHANGED <<gen, node, expr_out, n>>
    /\ UNCHANGED pipeVars
    /\ UNCHANGED <<twin, jvm>>

NextGen == RegisterVar \/ GenExpr \/ GenStmt \/ GetOutput

Spec == InitGen /\ [][NextGen]_vars

---------------------------------------------------------------------------
(* Reading the emitted lines *)

\* a line without its indentation
RECURSIVE Strip(_)
Strip(line) ==
    IF line # "" /\ Head(line) = " " THEN Strip(Tail(line)) ELSE line

\* line is "<type> <name> = ...": a typed declaration of name
IsDecl(line, name) ==
    LET t == Strip(line)
    IN  \E k \in 2..Len(t) :
          /\ \A j \in 1..(k - 1) : SubSeq(t, j, j) # " "
          /\ StartsWith(SubSeq(t, k, Len(t)), " " \o name \o " = ")

\* line is "<name> = ...": a bare reassignment of name
IsReassign(line, name) == StartsWith(Strip(line), name \o " = ")

DeclCount(lines, name) ==
    Cardinality({i \in DOMAIN lines : IsDecl(lines[i], name)})

\* the lines a call appended
Added(before, after) == SubSeq(after, Len(before) + 1, Len(after))

\* the lines of small occur in big, in order, indentation aside
RECURSIVE OccurInOrder(_, _)
OccurInOrder(small, big) ==
    IF small = <<>> THEN TRUE
    ELSE IF big = <<>> THEN FALSE
    ELSE IF Strip(Head(small)) = Strip(Head(big))
         THEN OccurInOrder(Tail(small), Tail(big))
         ELSE OccurInOrder(small, Tail(big))

---------------------------------------------------------------------------
(* The claims about the generator, checked under Spec *)

\* C1: over the statements generated by one JavaGen, a plain name gets its
\* one typed declaration at its first plain-name assignment (with the type
\* then recorded in the table), every later plain-name assignment is a bare
\* reassignment, and the recorded type never changes.
C1_DeclaredOnce ==
    [][pc' = "gen" =>
        \A v \in Names :
          LET new == Added(gen.lines, gen'.lines)
              assigns == {i \in DOMAIN new : IsDecl(new[i], v) \/ IsReassign(new[i], v)}
              decls == {i \in DOMAIN new : IsDecl(new[i], v)}
          IN  /\ v \in DOMAIN gen.tc.vars =>
                   /\ v \in DOMAIN gen'.tc.vars
                   /\ gen'.tc.vars[v] = gen.tc.vars[v]
                   /\ decls = {}
              /\ (v \notin DOMAIN gen.tc.vars /\ v \in DOMAIN gen'.tc.vars) =>
                   /\ Cardinality(decls) = 1
                   /\ \A d \in decls :
                        /\ \A i \in assigns : d <= i
                        /\ StartsWith(Strip(new[d]), gen'.tc.vars[v] \o " " \o v \o " = ")
              /\ v \notin DOMAIN gen'.tc.vars => assigns = {}
              /\ DeclCount(gen'.lines, v) = DeclCount(gen.lines, v) + Cardinality(decls)
    ]_vars

\* C1 witness: x was declared by one statement and reassigned by a later one
C1_Witness ==
    /\ pc = "gen" /\ gen.exc = ""
    /\ \E i, j \in DOMAIN gen.lines :
          i < j /\ IsDecl(gen.lines[i], "x") /\ IsReassign(gen.lines[j], "x")
    /\ DeclCount(gen.lines, "x") = 1

\* C2: register_var(name, t2) for a name already in the table leaves the
\* table unchanged (the name keeps the type of its first registration).
C2_RegisterKeepsFirst ==
    [][pc' = "setup" =>
        \A v \in DOMAIN gen.tc.vars : gen'.tc.vars[v] = gen.tc.vars[v]]_vars

\* C3: for an IfStmt with an else-branch, the statements of the else-branch
\* are all emitted, in order, after the conditional block.
C3_ElseEmitted ==
    [][(pc' = "gen" /\ node'.kind = "IfStmt" /\ node'.orelse.kind = "list"
          /\ gen'.exc = "") =>
        LET block == gen_stmt_scalar(gen, IfStmt(node'.cond, node'.body, None))
            orelse == gen_body([block EXCEPT !.lines = <<>>], node'.orelse.items)
        IN  OccurInOrder(orelse.lines, Added(block.lines, gen'.lines))
    ]_vars

\* C4: a statement or expression node without a translation rule makes the
\* generator raise an error that carries the node's kind.
C4_UnsupportedRaises ==
    /\ (pc = "gen" /\ node.kind \in {"WhileStmt", "FuncDef", "ClassDef"}) =>
          /\ gen.exc # ""
          /\ EndsWith(gen.exc, node.kind)
    /\ (pc = "expr" /\ node.kind \in {"Program", "WhileStmt"}) =>
          expr_out.res.exc = "Unsupported expr: " \o node.kind

\* C6: a for-loop generated while the table holds an array-typed name has, in
\* its main loop, one whole-vector assignment per indexed-assignment statement
\* of the body, in body order, and nothing for any other body statement (only
\* the loads and stores of the arrays around them); its tail loop has the
\* scalar translation of every body statement, in body order.
C6_MainAndTail ==
    [][(pc' = "gen" /\ node'.kind = "ForStmt" /\ array_names(gen.tc) # {}
          /\ gen'.exc = "") =>
        LET arrays == array_names(gen.tc)
            k == Cardinality(arrays)
            body == node'.body
            idx == SelectSeq(body, LAMBDA s : s.kind = "Assign" /\ s.var.kind = "ArrayAccess")
            m == Len(idx)
            new == Added(gen.lines, gen'.lines)
            inner == Indent(gen.indent + 1)
            tail == gen_body([gen EXCEPT !.lines = <<>>, !.indent = @ + 1], body)
        IN  /\ Len(new) = 3 + k + m + k + 2 + Len(tail.lines) + 1
            /\ new[3] = Indent(gen.indent) \o "for(int i=0;i<bound;i+=species.length()){"
            /\ \A j \in 1..k : StartsWith(new[3 + j], inner \o "var v_")
            /\ \A j \in 1..m :
                  new[3 + k + j] = inner \o "v_" \o idx[j].var.array \o " = "
                                   \o gen_expr(gen, idx[j].expr, TRUE, arrays).val \o ";"
            /\ \A j \in 1..k :
                  /\ StartsWith(new[3 + k + m + j], inner \o "v_")
                  /\ EndsWith(new[3 + k + m + j], ",i);")
            /\ new[3 + k + m + k + 1] = Indent(gen.indent) \o "}"
            /\ StartsWith(new[3 + k + m + k + 2], Indent(gen.indent) \o "for(int i=bound;i<")
            /\ SubSeq(new, 3 + k + m + k + 3, Len(new) - 1) = tail.lines
            /\ new[Len(new)] = Indent(gen.indent) \o "}"
    ]_vars

\* C6 witness: the vectorized translation of s_for, whose body has two
\* indexed assignments and two other statements, was emitted
C6_Witness ==
    /\ pc = "gen" /\ node = s_for /\ gen.exc = "" /\ n = 1
    /\ array_names(gen.tc) # {}
    /\ \E i \in DOMAIN gen.lines :
          Strip(gen.lines[i]) = "for(int i=0;i<bound;i+=species.length()){"
    /\ \E i \in DOMAIN gen.lines :
          Strip(gen.lines[i]) = "System.out.println((x == \"s\"));"

\* C8: gen_expr translates a BinOp == whose left operand is inferred String
\* to a call of equals, in scalar and in vector mode, and every other
\* BinOp == to the native infix form.
C8_StringEquality ==
    (pc = "expr" /\ node.kind = "BinOp" /\ node.op = "==" /\ expr_out.res.exc = "") =>
        LET arrays == IF expr_out.vector THEN array_names(gen.tc) ELSE {}
            l == gen_expr(gen, node.left, expr_out.vector, arrays).val
            r == gen_expr(gen, node.right, expr_out.vector, arrays).val
        IN  IF infer_expr(gen.tc, node.left) = "String"
            THEN expr_out.res.val = l \o ".equals(" \o r \o ")"
            ELSE expr_out.res.val = "(" \o l \o " == " \o r \o ")"

\* C8 witness: x is String-typed and x == "s" was translated in vector mode
C8_Witness ==
    /\ pc = "expr" /\ node = e_x_eq_s /\ expr_out.vector
    /\ array_names(gen.tc) # {}
    /\ expr_out.res.val = "x.equals(\"s\")"

\* a for-loop was generated while the table held an array-typed name (the
\* table gains and loses no array-typed name while statements are generated)
VectorUsed ==
    /\ array_names(gen.tc) # {}
    /\ \E i \in DOMAIN gen.lines : StartsWith(Strip(gen.lines[i]), "for(int ")

\* C9: the output has the vector import exactly when a for-loop was generated
\* while the table held an array-typed name; a for-loop generated while it
\* holds none is one scalar counting loop and adds no import.
C9_ImportIffVector ==
    /\ [](pc = "done" =>
            (StartsWith(out, "import jdk.incubator.vector.*;\n") <=> VectorUsed))
    /\ [][(pc' = "gen" /\ node'.kind = "ForStmt" /\ array_names(gen.tc) = {}
             /\ gen'.exc = "") =>
            LET new == Added(gen.lines, gen'.lines)
                body == gen_body([gen EXCEPT !.lines = <<>>, !.indent = @ + 1],
                                 node'.body)
            IN  /\ new = <<Indent(gen.indent) \o "for(int " \o node'.var \o "="
                              \o gen_expr(gen, node'.start, FALSE, {}).val \o ";"
                              \o node'.var \o "<"
                              \o gen_expr(gen, node'.end, FALSE, {}).val \o ";"
                              \o node'.var \o "++){">>
                          \o body.lines \o <<Indent(gen.indent) \o "}">>
                /\ gen'.imports = gen.imports
                /\ gen'.imports = {}
       ]_vars

\* C9 witness: an output with the import, and before it a vectorized loop
C9_Witness ==
    /\ pc = "done" /\ VectorUsed
    /\ StartsWith(out, "import jdk.incubator.vector.*;\n")

---------------------------------------------------------------------------
(* The parser applied to token lists: those the lexer makes of generated   *)
(* program texts, and arbitrary short ones.                                *)

\* the binary operators of the three levels
LevelOps == {"*", "/", "%", "+", "-", "==", "!=", ">", "<", ">=", "<="}

\* the primaries of a generated expression, by position
Primaries == <<"a", "1", "b", "2", "c", "3", "d">>

\* the expressions with exactly k operators: a op 1 op b ...
RECURSIVE ExprTexts(_)
ExprTexts(k) ==
    IF k = 0 THEN {Primaries[1]}
    ELSE {t \o " " \o op \o " " \o Primaries[((k) % Len(Primaries)) + 1] :
             t \in ExprTexts(k - 1), op \in LevelOps}

ExprSources == UNION {ExprTexts(k) : k \in 1..MaxOps}

\* simple statements, each with the node it stands for
Simple ==
    {[src |-> "x = 1\n", ast |-> Assign(str("x"), IntLiteral(1))],
     [src |-> "f(a);", ast |-> Call("f", <<Var("a")>>)]}

\* the blocks of at most k simple statements, each with its nodes
RECURSIVE Blocks(_)
Blocks(k) ==
    IF k = 0 THEN {[src |-> "", asts |-> <<>>]}
    ELSE Blocks(k - 1) \cup
         {[src |-> b.src \o st.src, asts |-> Append(b.asts, st.ast)] :
             b \in Blocks(k - 1), st \in Simple}

\* what may follow the second if: a block, or a third if with its block
Afters ==
    Blocks(MaxBody) \cup
    {[src |-> "if c:\n" \o b.src, asts |-> <<IfStmt(Var("c"), b.asts, None)>>] :
        b \in Blocks(MaxBody)}

\* two consecutive if statements, the first without else, the second with or
\* without one, followed by more statements; each with the tree that nests
\* everything after the first if in its body
IfCases ==
    {[src |-> "if a:\n" \o b1.src \o "if b == 1:\n" \o b2.src \o after.src,
      expected |-> IfStmt(Var("a"),
                      Append(b1.asts,
                             IfStmt(BinOp(Var("b"), "==", IntLiteral(1)),
                                    b2.asts \o after.asts, None)),
                      None)] :
        b1 \in Blocks(MaxBody), b2 \in Blocks(MaxBody), after \in Afters}
    \cup
    {[src |-> "if a:\n" \o b1.src \o "if b == 1:\n" \o b2.src \o "else:\n"
              \o b3.src \o after.src,
      expected |-> IfStmt(Var("a"),
                      Append(b1.asts,
                             IfStmt(BinOp(Var("b"), "==", IntLiteral(1)),
                                    b2.asts, list(b3.asts \o after.asts))),
                      None)] :
        b1 \in Blocks(MaxBody), b2 \in Blocks(MaxBody), b3 \in Blocks(MaxBody),
        after \in Afters}

\* other program texts: every statement form, and texts that do not parse
OtherSources ==
    {"", "x = 1\n", "x = a - 1 * b - 2", "if a == 1:\n  x = 2\nelse:\n  x = 3\n",
     "for i : range(0, 3):\n  print(i)\n",
     "for i : range(0, n): a[i] = a[i] + a[i]",
     "while x < 3:\n  x = x + 1\n",
     "def f(p, q: int): int:\n  return p\n",
     "x = b?.f + g(1, \"s\") * (2.50 - y)\nreturn\n",
     "x = 1 +", "if a\n", "f(1", "x[1 = 2", "else: x", "for i in x:", ")"}

ParseSources == ExprSources \cup {c.src : c \in IfCases} \cup OtherSources

TokAlphabet ==
    {Token("ID", "x"), Token("ID", "if"), Token("ID", "else"), Token("OP", "="),
     Token("OP", "+"), Token("INT_LITERAL", "1"), Token("COLON", ":"),
     Token("NEWLINE", "\n"), Token("LPAREN", "("), Token("RPAREN", ")")}

\* every token list of at most MaxToks tokens of the alphabet, then end-of-input
TokenLists ==
    UNION {{Append(t, Token("EOF", "")) : t \in [1..k -> TokAlphabet]} : k \in 0..MaxToks}

InitParse ==
    /\ gen = JavaGen(DefaultClassName, <<>>)
    /\ node = None
    /\ twin = NoTwin
    /\ jvm = NoJvm
    /\ expr_out = [vector |-> FALSE, res |-> Returned("")]
    /\ out = ""
    /\ n = 0
    /\ source = [exists |-> FALSE, text |-> ""]
    /\ run = FALSE
    /\ program = Ok(None, 0)
    /\ file = <<>>
    /\ diag = ""
    /\ status = 0
    /\ stages = <<>>
    /\ cursor = 0
    /\ \/ pc = "code" /\ code \in ParseSources /\ tokens = <<>>
       \/ pc = "tokens" /\ code = "" /\ tokens \in TokenLists

\* tokens = tokenize(code)
Tokenize ==
    /\ pc = "code"
    /\ LET r == tokenize(code)
       IN  /\ tokens' = r.val
           /\ pc' = IF r.exc # "" THEN "lexerror" ELSE "tokens"
    /\ UNCHANGED <<genVars, source, run, code, program, file, diag, status, stages, cursor>>

\* program = Parser(tokens).parse_program()
ParseProgram ==
    /\ pc = "tokens"
    /\ program' = parse_program(tokens)
    /\ pc' = "parsed"
    /\ UNCHANGED <<genVars, source, run, code, tokens, file, diag, status, stages, cursor>>

\* Parser(tokens).parse_block()
ParseBlock ==
    /\ pc = "tokens"
    /\ program' = parse_block(tokens, 0)
    /\ pc' = "block"
    /\ UNCHANGED <<genVars, source, run, code, tokens, file, diag, status, stages, cursor>>

\* Parser(tokens).parse_binop(0)
ParseBinop ==
    /\ pc = "tokens"
    /\ program' = parse_binop(tokens, 0, 0)
    /\ pc' = "binop"
    /\ UNCHANGED <<genVars, source, run, code, tokens, file, diag, status, stages, cursor>>

NextParse == Tokenize \/ ParseProgram \/ ParseBlock \/ ParseBinop

SpecParse == InitParse /\ [][NextParse]_vars

---------------------------------------------------------------------------
(* The claims about the parser, checked under SpecParse *)

\* C5: parse_block returns only at end-of-input or at the identifier else;
\* so of two consecutive top-level if statements, the first without else,
\* parse_program makes one top-level statement: the first IfStmt, whose body
\* holds the second IfStmt and with it every statement up to end-of-input.
C5_BlockAbsorbs ==
    /\ (pc = "block" /\ program.exc = "") =>
          \/ curr(tokens, program.pos).type = "EOF"
          \/ curr(tokens, program.pos) = Token("ID", "else")
    /\ pc = "parsed" =>
          \A c \in IfCases :
             code = c.src =>
                /\ program.exc = ""
                /\ program.val = Program(<<c.expected>>)
                /\ curr(tokens, program.pos).type = "EOF"

\* C5 witness: such a program, with statements after the second if, was parsed
C5_Witness ==
    /\ pc = "parsed"
    /\ code = "if a:\nx = 1\nif b == 1:\nf(a);x = 1\n"
    /\ Len(program.val.stmts) = 1
    /\ Len(program.val.stmts[1].body) = 2
    /\ Len(program.val.stmts[1].body[2].body) = 2

\* the level of a binary operator: 3 multiplicative, 2 additive, 1 comparison
Level(op) ==
    IF op \in {"*", "/", "%"} THEN 3 ELSE IF op \in {"+", "-"} THEN 2 ELSE 1

\* the tokens of an expression tree, left to right
RECURSIVE Flatten(_)
Flatten(e) ==
    CASE e.kind = "BinOp" -> Flatten(e.left) \o <<e.op>> \o Flatten(e.right)
      [] e.kind = "Var" -> <<e.name>>
      [] e.kind = "IntLiteral" -> <<ToString(e.value)>>
      [] OTHER -> <<"?">>

\* tighter operators lie deeper, and equal levels group to the left: the right
\* operand of an operator is bound strictly tighter, the left at least as tight
RECURSIVE Grouped(_)
Grouped(e) ==
    e.kind = "BinOp" =>
        /\ Grouped(e.left)
        /\ Grouped(e.right)
        /\ e.left.kind = "BinOp" => Level(e.left.op) >= Level(e.op)
        /\ e.right.kind = "BinOp" => Level(e.right.op) > Level(e.op)

\* toks is  p op p op ... p  end-of-input, every op of the three levels
IsExprInput(toks) ==
    /\ Len(toks) >= 4 /\ Len(toks) % 2 = 0
    /\ toks[Len(toks)].type = "EOF"
    /\ \A i \in 1..(Len(toks) - 1) :
          IF i % 2 = 1 THEN toks[i].type \in {"ID", "INT_LITERAL"}
          ELSE toks[i].type = "OP" /\ toks[i].val \in LevelOps

\* C10: of primaries separated by operators of the three levels, parse_binop
\* builds the tree of exactly these tokens in which multiplicative binds
\* tighter than additive, additive tighter than comparison, and equal levels
\* group to the left.
C10_Precedence ==
    (pc = "binop" /\ IsExprInput(tokens)) =>
        /\ program.exc = ""
        /\ curr(tokens, program.pos).type = "EOF"
        /\ Flatten(program.val) = [i \in 1..(Len(tokens) - 1) |-> tokens[i].val]
        /\ Grouped(program.val)

\* C10 witness: a - 1 * b - 2 parsed to ((a - (1 * b)) - 2)
C10_Witness ==
    /\ pc = "binop"
    /\ code = "a - 1 * b - 2"
    /\ program.val =
          BinOp(BinOp(Var("a"), "-", BinOp(IntLiteral(1), "*", Var("b"))),
                "-", IntLiteral(2))

---------------------------------------------------------------------------
(* main.py: compile_jpp, one action per stage.  The generator's recursion  *)
(* follows the tree it is given; a tree deeper than the interpreter allows *)
(* makes gen_stmt_scalar raise RecursionError (parse_binop builds a chain  *)
(* of operators in a loop, so that such a tree does come out of the        *)
(* parser).  What javac and java do is the environment's choice.           *)

\* the nodes the generator descends into from nd
children(nd) ==
    CASE nd.kind = "Assign" ->
            {nd.expr} \cup (IF nd.var.kind = "ArrayAccess" THEN {nd.var.index} ELSE {})
      [] nd.kind = "IfStmt" -> {nd.cond} \cup {nd.body[i] : i \in DOMAIN nd.body}
      [] nd.kind = "ForStmt" ->
            {nd.start, nd.end} \cup {nd.body[i] : i \in DOMAIN nd.body}
      [] nd.kind = "Call" -> {nd.args[i] : i \in DOMAIN nd.args}
      [] nd.kind = "Return" -> IF nd.expr = None THEN {} ELSE {nd.expr}
      [] nd.kind = "BinOp" -> {nd.left, nd.right}
      [] nd.kind = "ArrayAccess" -> {nd.index}
      [] nd.kind = "SafeNav" -> {nd.obj}
      [] OTHER -> {}

\* the depth of the generator's recursion on nd, counted in nodes
RECURSIVE depth(_)
depth(nd) ==
    LET below == {depth(c) : c \in children(nd)}
    IN  1 + (IF below = {} THEN 0 ELSE CHOOSE m \in below : \A k \in below : k <= m)

\* gen.gen_stmt_scalar(stmt) as the interpreter runs it
run_gen_stmt_scalar(g, stmt) ==
    IF depth(stmt) > RecursionLimit
    THEN Raise(g, "maximum recursion depth exceeded")
    ELSE gen_stmt_scalar(g, stmt)

\* str.capitalize on ASCII letters
Lower == "abcdefghijklmnopqrstuvwxyz"
Upper == "ABCDEFGHIJKLMNOPQRSTUVWXYZ"
Swap(c, from, to) ==
    IF \E i \in 1..Len(from) : SubSeq(from, i, i) = c
    THEN LET i == CHOOSE i \in 1..Len(from) : SubSeq(from, i, i) = c
         IN  SubSeq(to, i, i)
    ELSE c
RECURSIVE lower(_)
lower(text) ==
    IF text = "" THEN ""
    ELSE Swap(SubSeq(text, 1, 1), Upper, Lower) \o lower(SubSeq(text, 2, Len(text)))
capitalize(text) ==
    IF text = "" THEN ""
    ELSE Swap(SubSeq(text, 1, 1), Lower, Upper) \o lower(SubSeq(text, 2, Len(text)))

\* source_path.stem
SourceStem == "myProg"

\* a try block's except Exception (lines 43, 54, 69) with no exception to
\* catch: the stage would go on
raised_never(r) == FALSE

\* lines 43, 54, 69: the try block raised
raised(r) == r.exc # ""

\* programs that bind names from array elements, store into arrays and loop
\* over arrays
ArraySources ==
    {"x = b[0]\n", "a[1] = 2.5\n", "x = b[0]\ny = x\n",
     "a = 1\nx = a[0]\n",
     "s = \"t\"\nc = s[0]\n",
     "if x == 1: y = a[0]\n",
     "for i : range(0, n): a[i] = b[i]\n",
     "x = b[0]\nfor i:range(0,n):a[i]=b[i]\n",
     "x = b[0]\nfor i:range(0,n):x=b[i]\n"}

\* the texts of the source file: programs that compile, one with a character
\* the lexer rejects, two the parser rejects, and two with an operator chain
\* deeper than the generator's recursion
PipeSources ==
    ArraySources \cup
    {"", "x = 1\nprint(x)\n",
     "s = \"a\"\nif s == \"a\":\n  y = 2.50\nelse:\n  y = 1\n",
     "for i : range(0, 3):\n  print(i)\n",
     "x = 0\nwhile x < 3:\n  x = x + 1\n",
     "def f(p): int:\n  return p\n",
     "x = 1\ny = x $ 2\n",
     "x = 1 +",
     "x = 1\nif x\n",
     "x = 1 + 1 + 1 + 1 + 1 + 1 + 1\n",
     "y = 2;x = y - 1 - 1 - 1 - 1 - 1 - 1;print(x);"}

InitPipe ==
    /\ gen = JavaGen(DefaultClassName, <<>>)
    /\ node = None
    /\ twin = NoTwin
    /\ jvm = NoJvm
    /\ expr_out = [vector |-> FALSE, res |-> Returned("")]
    /\ out = ""
    /\ n = 0
    /\ source \in {[exists |-> FALSE, text |-> ""]}
                    \cup {[exists |-> TRUE, text |-> t] : t \in PipeSources}
    /\ run \in BOOLEAN
    /\ code = ""
    /\ tokens = <<>>
    /\ program = Ok(None, 0)
    /\ file = <<>>
    /\ diag = ""
    /\ status = 0
    /\ stages = <<>>
    /\ cursor = 0
    /\ pc = "start"

\* print the diagnostic; sys.exit(1)
Fail(msg) ==
    /\ diag' = msg
    /\ status' = 1
    /\ pc' = "exit"

\* lines 32-36: the source file is looked up and read
Open ==
    /\ pc = "start"
    /\ IF ~source.exists
       THEN Fail("File not found") /\ UNCHANGED code
       ELSE code' = source.text /\ pc' = "lex" /\ UNCHANGED <<diag, status>>
    /\ UNCHANGED <<genVars, source, run, tokens, program, file, stages>>
    /\ UNCHANGED cursor

\* lines 41-46
Lex ==
    /\ pc = "lex"
    /\ stages' = Append(stages, "lex")
    /\ LET r == tokenize(code)
       IN  /\ tokens' = r.val
           /\ IF raised(r) THEN Fail("Lexer error")
              ELSE pc' = "parse" /\ UNCHANGED <<diag, status>>
    /\ UNCHANGED <<genVars, source, run, code, program, file>>
    /\ UNCHANGED cursor

\* lines 51-57
Parse ==
    /\ pc = "parse"
    /\ stages' = Append(stages, "parse")
    /\ program' = parse_program(tokens)
    /\ IF raised(program') THEN Fail("Parser error")
       ELSE pc' = "new" /\ UNCHANGED <<diag, status>>
    /\ UNCHANGED <<genVars, source, run, code, tokens, file>>
    /\ UNCHANGED cursor

\* line 63: gen = JavaGen(source_path.stem)
NewGen ==
    /\ pc = "new"
    /\ stages' = Append(stages, "generate")
    /\ \E o \in SetOrders : gen' = JavaGen(capitalize(SourceStem), o)
    /\ n' = 0
    /\ pc' = "gen"
    /\ UNCHANGED <<node, expr_out, out, source, run, code, tokens, program, file,
                   diag, status>>
    /\ UNCHANGED <<twin, jvm>>
    /\ UNCHANGED cursor

\* lines 64-65, one turn of the loop: n statements are done
GenNext ==
    /\ pc = "gen"
    /\ n < Len(program.val.stmts)
    /\ node' = program.val.stmts[n + 1]
    /\ gen' = run_gen_stmt_scalar(gen, node')
    /\ IF raised(gen') THEN Fail("Code generation error") /\ UNCHANGED n
       ELSE n' = n + 1 /\ UNCHANGED <<pc, diag, status>>
    /\ UNCHANGED <<expr_out, out, source, run, code, tokens, program, file, stages>>
    /\ UNCHANGED <<twin, jvm>>
    /\ UNCHANGED cursor

\* lines 67-68 and 77: gen.write(java_path); write_text may raise OSError,
\* before it creates the file or after
Write ==
    /\ pc = "gen"
    /\ n = Len(program.val.stmts)
    /\ stages' = Append(stages, "write")
    /\ \/ /\ out' = get_output(gen)
          /\ file' = <<out'>>
          /\ pc' = IF run THEN "javac" ELSE "exit"
          /\ UNCHANGED <<diag, status>>
       \/ /\ file' \in {<<>>, <<"">>}
          /\ Fail("Code generation error")
          /\ UNCHANGED out
    /\ UNCHANGED <<gen, node, expr_out, n, source, run, code, tokens, program>>
    /\ UNCHANGED <<twin, jvm>>
    /\ UNCHANGED cursor

\* what subprocess.run(..., check=True) does
Outcomes == {"ok", "CalledProcessError", "FileNotFoundError"}

\* lines 86-91
Handler(outcome) ==
    IF outcome = "CalledProcessError"
    THEN Fail("Java compilation or execution failed.")
    ELSE Fail("javac not found. Install JDK and add to PATH.")

\* lines 79-80
Javac ==
    /\ pc = "javac"
    /\ stages' = Append(stages, "javac")
    /\ \E outcome \in Outcomes :
          IF outcome = "ok" THEN pc' = "java" /\ UNCHANGED <<diag, status>>
          ELSE Handler(outcome)
    /\ UNCHANGED <<genVars, source, run, code, tokens, program, file>>
    /\ UNCHANGED cursor

\* lines 82-84
Java ==
    /\ pc = "java"
    /\ stages' = Append(stages, "java")
    /\ \E outcome \in Outcomes :
          IF outcome = "ok" THEN pc' = "exit" /\ UNCHANGED <<diag, status>>
          ELSE Handler(outcome)
    /\ UNCHANGED <<genVars, source, run, code, tokens, program, file>>
    /\ UNCHANGED cursor

NextPipe == Open \/ Lex \/ Parse \/ NewGen \/ GenNext \/ Write \/ Javac \/ Java

SpecPipe == InitPipe /\ [][NextPipe]_vars

---------------------------------------------------------------------------
(* The claim about the pipeline, checked under SpecPipe *)

StageOrder == <<"lex", "parse", "generate", "write", "javac", "java">>

\* the stage the diagnostic d belongs to, given the stages started
FailedIn(d, started) ==
    CASE d = "File not found" -> started = <<>>
      [] d = "Lexer error" -> started = SubSeq(StageOrder, 1, 1)
      [] d = "Parser error" -> started = SubSeq(StageOrder, 1, 2)
      [] d = "Code generation error" ->
            started \in {SubSeq(StageOrder, 1, 3), SubSeq(StageOrder, 1, 4)}
      [] OTHER -> started \in {SubSeq(StageOrder, 1, 5), SubSeq(StageOrder, 1, 6)}

\* C7: the stages start in the order lex, parse, generate, write, javac, java,
\* none skipped, javac and java only with the run flag; a failed stage is the
\* last one started and the process then exits with status 1, while a run
\* that exits with status 0 went through every stage; parse starts only when
\* the text lexed, generate only when the tokens parsed, and write (so the
\* output file, and javac) only when every statement of the program was
\* generated without an exception.
C7_StagesInOrder ==
    /\ [](/\ stages = SubSeq(StageOrder, 1, Len(stages))
          /\ Len(stages) >= 5 => run
          /\ diag # "" => /\ pc = "exit"
                          /\ status = 1
                          /\ FailedIn(diag, stages)
          /\ (pc = "exit" /\ diag = "") =>
                /\ status = 0
                /\ Len(stages) = IF run THEN 6 ELSE 4
          /\ Len(stages) >= 2 =>
                /\ tokenize(code).exc = ""
                /\ tokens = tokenize(code).val
          /\ Len(stages) >= 3 =>
                /\ parse_program(tokens).exc = ""
                /\ program = parse_program(tokens)
          /\ (file # <<>> \/ Len(stages) >= 5) => Len(stages) >= 4
          /\ Len(stages) >= 4 =>
                /\ gen.exc = ""
                /\ n = Len(program.val.stmts)
                /\ \A i \in 1..n : depth(program.val.stmts[i]) <= RecursionLimit)
    /\ [][pc # "exit" /\ Len(stages') <= Len(stages) + 1]_vars

\* C7 witness: the second statement's generation failed after the first was
\* generated; nothing was written and the process exited with status 1
C7_Witness ==
    /\ pc = "exit"
    /\ status = 1
    /\ diag = "Code generation error"
    /\ n = 1
    /\ gen.exc # ""
    /\ stages = SubSeq(StageOrder, 1, 3)
    /\ file = <<>>

---------------------------------------------------------------------------
(* One program generated twice, each time by a JavaGen of its own, the     *)
(* second possibly in another process (another set iteration order).       *)

\* main.py lines 64-65: for stmt in program.stmts: gen.gen_stmt_scalar(stmt);
\* an exception ends the loop
RECURSIVE generate(_, _)
generate(g, stmts) ==
    IF stmts = <<>> \/ g.exc # "" THEN g
    ELSE generate(gen_stmt_scalar(g, Head(stmts)), Tail(stmts))

\* gen.get_output() after the loop, when it ended normally
output_of(g) == IF g.exc # "" THEN "" ELSE get_output(g)

\* the programs generated twice: every list of at most MaxStmts of the
\* statements, and one that binds two names before a for loop
TwicePrograms ==
    UNION {[1..k -> Stmts] : k \in 1..MaxStmts}
    \cup {<<Assign(str("a"), e_one),
            IfStmt(e_x_eq_s, <<Assign(str("x"), e_s), s_for>>, None)>>}

InitTwice ==
    /\ gen \in {JavaGen(DefaultClassName, o) : o \in SetOrders}
    /\ twin \in {[gen |-> JavaGen(DefaultClassName, o), out |-> ""] : o \in SetOrders}
    /\ jvm = NoJvm
    /\ node = None
    /\ expr_out = [vector |-> FALSE, res |-> Returned("")]
    /\ out = ""
    /\ n = 0
    /\ source = [exists |-> FALSE, text |-> ""]
    /\ run = FALSE
    /\ code = ""
    /\ tokens = <<>>
    /\ program \in {Ok(Program(stmts), 0) : stmts \in TwicePrograms}
    /\ file = <<>>
    /\ diag = ""
    /\ status = 0
    /\ stages = <<>>
    /\ cursor = 0
    /\ pc = "first"

\* the first generation, by gen
GenerateFirst ==
    /\ pc = "first"
    /\ gen' = generate(gen, program.val.stmts)
    /\ out' = output_of(gen')
    /\ pc' = "second"
    /\ UNCHANGED <<node, expr_out, n, twin, jvm, pipeVars>>

\* the second generation, by the other JavaGen
GenerateSecond ==
    /\ pc = "second"
    /\ LET g == generate(twin.gen, program.val.stmts)
       IN  twin' = [gen |-> g, out |-> output_of(g)]
    /\ pc' = "twice"
    /\ UNCHANGED <<gen, node, expr_out, out, n, jvm, pipeVars>>

NextTwice == GenerateFirst \/ GenerateSecond

SpecTwice == InitTwice /\ [][NextTwice]_vars

\* C11: a program generated twice, each time by a fresh JavaGen, gives the
\* same text both times (and the same exception when generation raises),
\* whatever the set iteration orders of the two generations.
C11_Deterministic ==
    pc = "twice" =>
        /\ gen.exc = twin.gen.exc
        /\ gen.lines = twin.gen.lines
        /\ out = twin.out

\* C11 witness: two generations under different set orders have both emitted
\* a for loop and returned their text
C11_Witness ==
    /\ pc = "twice"
    /\ gen.set_order # twin.gen.set_order
    /\ gen.exc = ""
    /\ out # ""
    /\ \E i \in DOMAIN gen.lines : StartsWith(Strip(gen.lines[i]), "for(int ")
    /\ Len(program.val.stmts) = 2

---------------------------------------------------------------------------
(* The parser's loops followed turn by turn.  pc names the method whose    *)
(* loop is running and cursor is Parser.pos at the head of the loop.  The  *)
(* loop of parse_program starts at the first token; a loop of another      *)
(* method may be entered with the cursor anywhere in the token list.  n   *)
(* counts the turns the loop has taken.                                    *)

Loops == {"parse_program", "parse_block", "parse_func", "parse_args", "parse_binop"}

\* the values of min_prec a call of parse_binop is given (lines 287, 297)
MinPrecs == {0} \cup {climb(_precedence(op)) : op \in LevelOps \cup {"="}}

LoopAlphabet ==
    {Token("ID", "x"), Token("ID", "def"), Token("OP", "+"), Token("COLON", ":"),
     Token("COMMA", ","), Token("NEWLINE", "\n"), Token("LPAREN", "("),
     Token("RPAREN", ")")}

\* the token lists the loops run on: every list of at most MaxToks tokens of
\* the alphabet, then end-of-input, and the tokens of the program texts
LoopTokenLists ==
    UNION {{Append(t, Token("EOF", "")) : t \in [1..k -> LoopAlphabet]} : k \in 0..MaxToks}
    \cup {tokenize(t).val : t \in {o \in OtherSources : tokenize(o).exc = ""}}

InitLoop ==
    /\ gen = JavaGen(DefaultClassName, <<>>)
    /\ node = None
    /\ twin = NoTwin
    /\ jvm = NoJvm
    /\ expr_out = [vector |-> FALSE, res |-> Returned("")]
    /\ out = ""
    /\ n = 0
    /\ source = [exists |-> FALSE, text |-> ""]
    /\ run = FALSE
    /\ code = ""
    /\ tokens \in LoopTokenLists
    /\ pc \in Loops
    /\ cursor \in IF pc = "parse_program" THEN {0} ELSE 0..(Len(tokens) - 1)
    /\ program = Ok(Program(<<>>), cursor)
    /\ file = <<>>
    /\ diag = ""
    /\ status = 0
    /\ stages = <<>>

\* the turn of a loop gave r: the exception leaves the loop (and the method,
\* pc becoming left), the value moves the cursor to where the turn left it
Turn(r, left) ==
    /\ n' = n + 1
    /\ IF r.exc # ""
       THEN pc' = left /\ diag' = r.exc /\ UNCHANGED cursor
       ELSE cursor' = r.pos /\ UNCHANGED <<pc, diag>>

\* lines 95-102
ProgramTurn ==
    /\ pc = "parse_program"
    /\ program_continues(tokens, cursor)
    /\ LET r == program_iter(tokens, cursor)
       IN  /\ Turn(r, "error")
           /\ program' = IF r.exc # "" THEN r
                         ELSE Ok(Program(IF r.val # None
                                         THEN Append(program.val.stmts, r.val)
                                         ELSE program.val.stmts), r.pos)
    /\ UNCHANGED <<gen, node, expr_out, out, twin, jvm, source, run, code, tokens, file,
                   status, stages>>

\* line 104: return Program(stmts)
ProgramReturn ==
    /\ pc = "parse_program"
    /\ ~program_continues(tokens, cursor)
    /\ pc' = "parsed"
    /\ UNCHANGED <<genVars, source, run, code, tokens, program, file, diag, status,
                   stages, cursor>>

\* lines 234-245
BlockTurn ==
    /\ pc = "parse_block"
    /\ block_continues(tokens, cursor)
    /\ Turn(block_iter(tokens, cursor), "raised")
    /\ UNCHANGED <<gen, node, expr_out, out, twin, jvm, source, run, code, tokens, program,
                   file, status, stages>>

\* lines 198-210
ParamTurn ==
    /\ pc = "parse_func"
    /\ list_continues(tokens, cursor)
    /\ Turn(param_iter(tokens, cursor), "raised")
    /\ UNCHANGED <<gen, node, expr_out, out, twin, jvm, source, run, code, tokens, program,
                   file, status, stages>>

\* lines 274-277 and 335-338
ArgTurn ==
    /\ pc = "parse_args"
    /\ list_continues(tokens, cursor)
    /\ Turn(arg_iter(tokens, cursor), "raised")
    /\ UNCHANGED <<gen, node, expr_out, out, twin, jvm, source, run, code, tokens, program,
                   file, status, stages>>

\* lines 293-298
BinopTurn ==
    /\ pc = "parse_binop"
    /\ \E min_prec \in MinPrecs :
          /\ binop_continues(tokens, cursor, min_prec)
          /\ Turn(binop_iter(tokens, cursor, Var("x")), "raised")
    /\ UNCHANGED <<gen, node, expr_out, out, twin, jvm, source, run, code, tokens, program,
                   file, status, stages>>

\* the condition of a loop other than parse_program's is false: the loop ends
LoopEnd ==
    /\ \/ pc = "parse_block" /\ ~block_continues(tokens, cursor)
       \/ pc \in {"parse_func", "parse_args"} /\ ~list_continues(tokens, cursor)
       \/ pc = "parse_binop"
          /\ \A min_prec \in MinPrecs : ~binop_continues(tokens, cursor, min_prec)
    /\ pc' = "returned"
    /\ UNCHANGED <<genVars, source, run, code, tokens, program, file, diag, status,
                   stages, cursor>>

NextLoop ==
    ProgramTurn \/ ProgramReturn \/ BlockTurn \/ ParamTurn \/ ArgTurn \/ BinopTurn
    \/ LoopEnd

SpecLoop == InitLoop /\ [][NextLoop]_vars

\* C12: every turn of every parser loop raises or moves the cursor strictly
\* forward, and the cursor never moves back nor past end-of-input, so that a
\* loop takes fewer turns than there are tokens; the loop of parse_program
\* ends as parse_program does: by the syntax error, or by returning the
\* Program with the cursor on end-of-input.
C12_LoopsAdvance ==
    /\ [][/\ cursor' >= cursor
          /\ pc' = pc => cursor' > cursor]_vars
    /\ [](/\ cursor <= Len(tokens) - 1
          /\ n <= Len(tokens)
          /\ pc = "parsed" =>
                /\ program = parse_program(tokens)
                /\ program.exc = ""
                /\ program.val.kind = "Program"
                /\ curr(tokens, cursor).type = "EOF"
          /\ pc = "error" =>
                /\ program = parse_program(tokens)
                /\ diag = program.exc
                /\ diag # ""
          /\ pc = "raised" => diag # "")

\* C12 witness: the loop of parse_program has taken turns over a function
\* definition with parameters and returned the Program at end-of-input
C12_Witness ==
    /\ pc = "parsed"
    /\ Len(tokens) > MaxToks + 1
    /\ cursor = Len(tokens) - 1
    /\ Len(program.val.stmts) = 1
    /\ program.val.stmts[1].kind = "FuncDef"
    /\ Len(program.val.stmts[1].params) = 2

---------------------------------------------------------------------------
(* The claim about the name table in a compilation, checked under SpecPipe *)

\* line is one the vector translation emits (lines 195-199, 203-204, 210-213, 219)
IsVectorLine(line) ==
    \/ StartsWith(Strip(line), "var species = ")
    \/ StartsWith(Strip(line), "int bound = ")
    \/ StartsWith(Strip(line), "for(int i=0;i<bound;")
    \/ StartsWith(Strip(line), "for(int i=bound;")
    \/ StartsWith(Strip(line), "var v_")
    \/ StartsWith(Strip(line), "v_")

\* C13: in a compilation by compile_jpp no name of the table ever has a type
\* tag ending in [], the function table and the import set stay empty, no
\* line of the vector translation is emitted or written, and every for loop
\* generated at top level opens with the scalar counting loop.
C13_NoArraysInPipeline ==
    /\ [](/\ \A v \in DOMAIN gen.tc.vars : ~EndsWith(gen.tc.vars[v], "[]")
          /\ array_names(gen.tc) = {}
          /\ gen.tc.funcs = <<>>
          /\ gen.imports = {}
          /\ \A i \in DOMAIN gen.lines : ~IsVectorLine(gen.lines[i])
          /\ file # <<>> => ~StartsWith(file[1], "import "))
    /\ [][(pc = "gen" /\ n' = n + 1 /\ node'.kind = "ForStmt") =>
             /\ Len(gen'.lines) >= Len(gen.lines) + 2
             /\ gen'.lines[Len(gen.lines) + 1] =
                   Indent(gen.indent) \o "for(int " \o node'.var \o "="
                   \o gen_expr(gen, node'.start, FALSE, {}).val \o ";"
                   \o node'.var \o "<" \o gen_expr(gen, node'.end, FALSE, {}).val
                   \o ";" \o node'.var \o "++){"
             /\ gen'.lines[Len(gen'.lines)] = Indent(gen.indent) \o "}"]_vars

\* C13 witness: a compilation bound a name from an array element, then
\* generated a for loop storing into an array, and wrote the file
C13_Witness ==
    /\ pc = "exit"
    /\ status = 0
    /\ file # <<>>
    /\ code = "x = b[0]\nfor i:range(0,n):a[i]=b[i]\n"
    /\ "x" \in DOMAIN gen.tc.vars
    /\ node.kind = "ForStmt"
    /\ \E i \in DOMAIN gen.lines : StartsWith(Strip(gen.lines[i]), "a[i] = ")

---------------------------------------------------------------------------
(* The loops gen_stmt_vector emits for a for statement, run index by index *)

\* the largest loop end and the largest species length
MaxEnd == 4
MaxLanes == 3

\* the part of text before the first ch, and the part after it
RECURSIVE before(_, _)
before(text, ch) ==
    IF text = "" \/ Head(text) = ch THEN "" ELSE SubSeq(text, 1, 1) \o before(Tail(text), ch)
RECURSIVE after(_, _)
after(text, ch) ==
    IF text = "" THEN "" ELSE IF Head(text) = ch THEN Tail(text) ELSE after(Tail(text), ch)

\* the emitted lines that open a loop, in order (lines 183, 199 and 219)
ForLines(g) == SelectSeq(g.lines, LAMBDA line : StartsWith(Strip(line), "for("))

\* "for(int <v>=<init>;<v><<limit>;<update>){": the three parts of a header
ForHeader(line) ==
    [init   |-> before(after(Strip(line), "="), ";"),
     limit  |-> after(before(after(Strip(line), ";"), ";"), "<"),
     update |-> before(after(after(Strip(line), ";"), ";"), "{")]

\* the argument of the emitted species.loopBound(...) (line 196), or "" where
\* no bound is declared
BoundArg(g) ==
    LET decl == SelectSeq(g.lines, LAMBDA line : StartsWith(Strip(line), "int bound = "))
    IN  IF decl = <<>> THEN "" ELSE before(after(decl[1], "("), ")")

\* VectorSpecies.loopBound(length): the largest multiple of the species
\* length that is at most length
loopBound(length, lanes) == length - (length % lanes)

\* the value of an emitted operand: the local bound, or a decimal literal
JavaInt(text, m) == IF text = "bound" THEN m.bound ELSE PyInt(text)

\* the number of indices one turn handles and moves on by: the species length
\* in the loop stepping by it (loads and stores at offset i, lines 203-213),
\* one in a counting loop
Stride(header, m) == IF EndsWith(header.update, "++)") THEN 1 ELSE m.length

\* the name table a vectorised loop needs: an array-typed name
WithArray(g) == [g EXCEPT !.tc = register_var(g.tc, "a", "int[]")]

RangeLoops ==
    {ForStmt("i", IntLiteral(start), IntLiteral(end),
             <<Assign(e_ai, BinOp(e_ai, "+", e_ai))>>) :
        start \in 0..MaxEnd, end \in 0..MaxEnd}

InitRange ==
    /\ node \in {nd \in RangeLoops : nd.start.value <= nd.end.value}
    /\ \E g \in {JavaGen(DefaultClassName, <<"a">>), WithArray(JavaGen(DefaultClassName, <<"a">>))} :
          gen = gen_stmt_vector(g, node)
    /\ jvm \in {[length |-> w, bound |-> 0, loop |-> 0, i |-> 0,
                 visits |-> [k \in 1..(MaxEnd + 1) |-> 0]] : w \in 1..MaxLanes}
    /\ pc = "emitted"
    /\ expr_out = [vector |-> FALSE, res |-> Returned("")]
    /\ out = ""
    /\ n = 0
    /\ twin = NoTwin
    /\ PipeIdle

\* the emitted text starts to run: bound is computed where it is declared, and
\* the first loop is entered
Enter ==
    /\ pc = "emitted"
    /\ pc' = "loop"
    /\ LET m == [jvm EXCEPT !.bound = IF BoundArg(gen) = "" THEN 0
                                      ELSE loopBound(PyInt(BoundArg(gen)), jvm.length)]
       IN  jvm' = [m EXCEPT !.loop = 1, !.i = JavaInt(ForHeader(ForLines(gen)[1]).init, m)]
    /\ UNCHANGED <<gen, node, expr_out, out, n, twin, pipeVars>>

\* one turn of the loop reached: the body handles the indices i .. i+stride-1
\* (visits[k + 1] counts index k), then the update moves i on
LoopTurn ==
    /\ pc = "loop"
    /\ LET header == ForHeader(ForLines(gen)[jvm.loop])
           stride == Stride(header, jvm)
       IN  /\ jvm.i < JavaInt(header.limit, jvm)
           /\ jvm' = [jvm EXCEPT
                        !.visits = [k \in DOMAIN jvm.visits |->
                                      IF k - 1 \in jvm.i .. (jvm.i + stride - 1)
                                      THEN jvm.visits[k] + 1 ELSE jvm.visits[k]],
                        !.i = jvm.i + stride]
    /\ UNCHANGED <<gen, node, expr_out, out, pc, n, twin, pipeVars>>

\* the condition of the loop reached is false: the next loop is entered
NextLoopEntered ==
    /\ pc = "loop"
    /\ ~(jvm.i < JavaInt(ForHeader(ForLines(gen)[jvm.loop]).limit, jvm))
    /\ jvm.loop < Len(ForLines(gen))
    /\ jvm' = [jvm EXCEPT !.loop = jvm.loop + 1,
                          !.i = JavaInt(ForHeader(ForLines(gen)[jvm.loop + 1]).init, jvm)]
    /\ UNCHANGED <<gen, node, expr_out, out, pc, n, twin, pipeVars>>

\* the condition of the last loop is false
LoopsDone ==
    /\ pc = "loop"
    /\ ~(jvm.i < JavaInt(ForHeader(ForLines(gen)[jvm.loop]).limit, jvm))
    /\ jvm.loop = Len(ForLines(gen))
    /\ pc' = "done"
    /\ UNCHANGED <<genVars, pipeVars>>

NextRange == Enter \/ LoopTurn \/ NextLoopEntered \/ LoopsDone

SpecRange == InitRange /\ [][NextRange]_vars

\* C14: when the emitted loops of a for statement over range(start, end) have
\* run, with or without an array-typed name in the table, each index from
\* start to end-1 was handled exactly once and no other index was handled.
C14_SameIndices ==
    pc = "done" =>
        \A k \in DOMAIN jvm.visits :
            jvm.visits[k] = IF k - 1 \in node.start.value .. (node.end.value - 1)
                            THEN 1 ELSE 0

=============================================================================
